---- MODULE Spec2Model ----
(***************************************************************************)
(* A model of voxpilot's agent execution core:                             *)
(*   - SessionStreamRegistry          (services/streams.py)                *)
(*   - run_agent_loop                 (services/agent.py)                  *)
(*   - the session stream handler and the message / confirm endpoints      *)
(*     (api/routes/chat.py)                                                *)
(*                                                                         *)
(* Every coroutine is cut at its suspension points (yield / await): one    *)
(* action runs a handler from one suspension point to the next.            *)
(***************************************************************************)
EXTENDS Integers, Sequences, FiniteSets, TLC

\* ------------------------------------------------------------------ bounds

\* max_iterations handed to run_agent_loop (settings.max_agent_iterations is 25)
MaxIterations == 2
\* items accepted by registry.send during one behaviour
MaxMsgs == 2
\* confirmations a client gets accepted into one confirmation queue
MaxQueue == 1

\* ------------------------------------------------------------------ domains

None == "None"

Sessions == {"s1"}

\* One entry per open HTTP stream connection.  An asyncio.Queue object is
\* identified by the connection that created it.
Streams == {"A", "B"}

ToolCallIds == {"c1", "c2"}

\* No tool has been called directly
\* The messages table before any message was persisted, and the locals of a
\* generator that has not read it
NoRows     == [s \in Sessions |-> <<>>]
NoHistory  == [msgs |-> <<>>, i |-> 0]
NoRequest  == [tool |-> "none"]
NoResponse == [text |-> <<"none">>, body |-> <<>>, touched |-> {}, failed |-> FALSE]

\* ------------------------------------------------------------------ state

VARIABLES
    \* SessionStreamRegistry (streams.py 17-20)
    queues,            \* _queues:          session -> message queue object
    confirm_queues,    \* _confirm_queues:  session -> confirmation queue object
    pending_confirm,   \* _pending_confirm: session -> tool call id
    \* the asyncio.Queue objects
    mqueue,            \* contents of the message queue created by a connection
    cqueue,            \* contents of the confirmation queue created by a connection
    \* environment
    ret,               \* value returned by the last registry call / endpoint request
    nsent,             \* number of items registry.send accepted so far (names the payloads)
    disconnected,      \* per connection: the client has gone away
    provider,          \* the responses the text-generation provider can give
    max_iterations,    \* max_iterations handed to run_agent_loop
    request,           \* the last direct call of a tool's execute: tool, arguments, work_dir
    response,          \* what that call returned and which files it touched
    \* stream_chat as a whole: the messages table and the generator's locals
    db,                \* messages table: session -> rows in insertion order
    history,           \* per connection: the rows read for the replay, and how many were sent
    events,            \* per connection: the events the generator has yielded so far
    accumulated,       \* per connection: number of text deltas accumulated in the turn
    \* stream handler / agent loop, per connection
    pc,                \* suspension point the coroutine is parked at
    sid,               \* session_id of the connection
    current,           \* payload the handler took from its queue
    loop,              \* locals of run_agent_loop
    log,               \* what the coroutine has yielded and which collaborators it called
    finished           \* payloads whose turn reached its terminal event

regVars == <<queues, confirm_queues, pending_confirm, mqueue, cqueue>>
dbVars  == <<db, history, events, accumulated>>
envVars == <<provider, max_iterations, request, response, db, history, events, accumulated>>
runVars == <<pc, sid, current, loop, log, finished, disconnected>>

vars == <<queues, confirm_queues, pending_confirm, mqueue, cqueue, ret, nsent,
          disconnected, provider, max_iterations, request, response, db, history,
          events, accumulated, pc, sid, current, loop, log, finished>>

\* ------------------------------------------------------------------ SessionStreamRegistry

\* (a variant that keeps the queue already registered for the session)
register_keeps_first(h, s) ==
    IF queues[s] = None
    THEN /\ queues' = [queues EXCEPT ![s] = h]
         /\ mqueue' = [mqueue EXCEPT ![h] = <<>>]
    ELSE UNCHANGED <<queues, mqueue>>

\* register(session_id): a fresh queue replaces whatever was registered.
register(h, s) ==
    /\ queues' = [queues EXCEPT ![s] = h]
    /\ mqueue' = [mqueue EXCEPT ![h] = <<>>]

\* (a variant that forgets to pop)
unregister_keeps_entry(s) ==
    queues' = queues

\* unregister(session_id): pop by session id, no-op if absent.
unregister(s) ==
    queues' = [queues EXCEPT ![s] = None]

\* (a variant that puts the payload at the head of the queue)
send_to_front(s, payload, r) ==
    LET queue == queues[s] IN
    IF queue = None
    THEN /\ r = FALSE
         /\ UNCHANGED mqueue
    ELSE /\ mqueue' = [mqueue EXCEPT ![queue] = <<payload>> \o @]
         /\ r = TRUE

\* send(session_id, payload) -> bool (r)
send(s, payload, r) ==
    LET queue == queues[s] IN
    IF queue = None
    THEN /\ r = FALSE
         /\ UNCHANGED mqueue
    ELSE /\ mqueue' = [mqueue EXCEPT ![queue] = Append(@, payload)]
         /\ r = TRUE

\* (a variant that leaves the pending id in place)
register_confirm_keeps_pending(h, s) ==
    /\ confirm_queues' = [confirm_queues EXCEPT ![s] = h]
    /\ cqueue' = [cqueue EXCEPT ![h] = <<>>]
    /\ UNCHANGED pending_confirm

\* register_confirm(session_id): fresh confirmation queue, stale pending id dropped.
register_confirm(h, s) ==
    /\ confirm_queues' = [confirm_queues EXCEPT ![s] = h]
    /\ cqueue' = [cqueue EXCEPT ![h] = <<>>]
    /\ pending_confirm' = [pending_confirm EXCEPT ![s] = None]

\* unregister_confirm(session_id)
unregister_confirm(s) ==
    /\ confirm_queues' = [confirm_queues EXCEPT ![s] = None]
    /\ pending_confirm' = [pending_confirm EXCEPT ![s] = None]

\* set_pending_confirm(session_id, tool_call_id)
set_pending_confirm(s, tool_call_id) ==
    pending_confirm' = [pending_confirm EXCEPT ![s] = tool_call_id]

\* (a variant that accepts whatever id is sent while a queue is registered)
put_confirm_any_id(s, tool_call_id, approved, r) ==
    LET queue == confirm_queues[s] IN
    IF queue = None
    THEN /\ r = FALSE
         /\ UNCHANGED <<cqueue, pending_confirm>>
    ELSE /\ pending_confirm' = [pending_confirm EXCEPT ![s] = None]
         /\ cqueue' = [cqueue EXCEPT ![queue] =
                          Append(@, [approved |-> approved, id |-> tool_call_id])]
         /\ r = TRUE

\* (a variant that leaves the id pending after accepting it)
put_confirm_keeps_pending(s, tool_call_id, approved, r) ==
    LET queue == confirm_queues[s] IN
    IF queue = None \/ pending_confirm[s] # tool_call_id
    THEN /\ r = FALSE
         /\ UNCHANGED <<cqueue, pending_confirm>>
    ELSE /\ UNCHANGED pending_confirm
         /\ cqueue' = [cqueue EXCEPT ![queue] =
                          Append(@, [approved |-> approved, id |-> tool_call_id])]
         /\ r = TRUE

\* put_confirm(session_id, tool_call_id, approved) -> bool (r).
\* The queue holds the boolean; "id" remembers which request enqueued it.
put_confirm(s, tool_call_id, approved, r) ==
    LET queue == confirm_queues[s] IN
    IF queue = None
    THEN /\ r = FALSE
         /\ UNCHANGED <<cqueue, pending_confirm>>
    ELSE IF pending_confirm[s] # tool_call_id
    THEN /\ r = FALSE
         /\ UNCHANGED <<cqueue, pending_confirm>>
    ELSE /\ pending_confirm' = [pending_confirm EXCEPT ![s] = None]
         /\ cqueue' = [cqueue EXCEPT ![queue] =
                          Append(@, [approved |-> approved, id |-> tool_call_id])]
         /\ r = TRUE

\* ------------------------------------------------------------------ tools

\* default_registry (tools/__init__.py 23-31): name -> requires_confirmation.
\* The four built-ins confined to work_dir behave alike for the loop; list_directory
\* stands for them.
RegisteredTools == {"list_directory", "read_file_external"}

\* (a variant in which every name resolves to a tool)
ToolKnown_any(name) == name \in RegisteredTools \cup {"bogus"}

\* ToolRegistry.get(name) is not None
ToolKnown(name) == name \in RegisteredTools

\* Tool.requires_confirmation (base.py 22, read_file_external.py 51)
requires_confirmation(name) == name = "read_file_external"

\* Argument strings the provider sends, whole or in fragments.
ArgsPath == "{\"path\":\"/f\"}"

\* json.loads(tc.arguments): what kind of value comes back, or "error" for
\* JSONDecodeError.  Only called on a non-empty string.
JsonLoads(text) ==
    CASE text = "{}"     -> "dict"
      [] text = ArgsPath -> "dict_path"
      [] text = "[]"     -> "list"
      [] OTHER           -> "error"

\* args as the loop computes it: {} for an empty string (agent.py 292-294)
ParseArguments(text) == IF text = "" THEN "dict" ELSE JsonLoads(text)

\* A result text is <<first word, rest>>; str.startswith("Error:") reads the first.
ErrUnknownTool(name) == <<"Error:", "unknown tool", name>>
ErrDeclined          == <<"Error:", "user declined to run this tool.">>
ErrParse(name, text) == <<"Error:", "failed to parse arguments for tool", name, text>>
Raised               == <<"raise", "AttributeError">>

IsErrorText(text) == text[1] = "Error:"

\* tool.execute(args, work_dir) on a machine where work_dir is a non-empty
\* directory and /f is a small regular file outside it.
\* arguments.get(...) on a value that is not a dict raises AttributeError.
Execute(name, args) ==
    IF args \notin {"dict", "dict_path"} THEN Raised
    ELSE IF name = "list_directory"
    THEN IF args = "dict"
         THEN <<"Directory:", "./">>
         ELSE <<"Error:", "path is outside the working directory.">>
    ELSE IF args = "dict"
         THEN <<"Error:", "'path' argument is required.">>
         ELSE <<"File:", "/f">>

\* ------------------------------------------------------------------ provider

\* ChatCompletionChunk as the loop reads it.  "" stands for None / empty.
TextChunk(content, model, finish_reason) ==
    [choices |-> content # "" \/ finish_reason # "",
     content |-> content, tool_calls |-> <<>>,
     finish_reason |-> finish_reason, model |-> model]

Delta(index, id, name, arguments) ==
    [index |-> index, id |-> id, name |-> name, arguments |-> arguments]

ToolChunk(deltas, finish_reason) ==
    [choices |-> TRUE, content |-> "", tool_calls |-> deltas,
     finish_reason |-> finish_reason, model |-> ""]

\* One provider call: the chunks it streams, and whether it then fails.
Response(chunks, fails) == [chunks |-> chunks, fails |-> fails]

OneCall(id, name, arguments) ==
    Response(<<ToolChunk(<<Delta(0, id, name, arguments)>>, "tool_calls")>>, FALSE)

\* Responses offered to the loop when it is exercised on its own.
LoopResponses ==
    {OneCall("c1", n, a) :
        n \in {"list_directory", "read_file_external", "bogus"},
        a \in {"", "{}", "[]", "{"}}
    \cup
    { \* text, then a natural stop
      Response(<<TextChunk("Hel", "", ""), TextChunk("lo", "m2", "stop")>>, FALSE),
      \* no text at all
      Response(<<TextChunk("", "", "stop")>>, FALSE),
      \* text, then the stream breaks
      Response(<<TextChunk("Hel", "", "")>>, TRUE),
      \* two calls, the arguments of the first split over two chunks
      Response(<<ToolChunk(<<Delta(0, "c1", "read_file_external", "{\"path\":")>>, ""),
                 ToolChunk(<<Delta(0, "", "", "\"/f\"}"),
                             Delta(1, "c2", "read_file_external", "{}")>>, "tool_calls")>>,
               FALSE),
      Response(<<TextChunk("Hel", "", ""),
                 ToolChunk(<<Delta(0, "c1", "list_directory", ArgsPath),
                             Delta(1, "c2", "bogus", "")>>, "tool_calls")>>, FALSE),
      \* an unknown tool first, a known one after it
      Response(<<ToolChunk(<<Delta(0, "c1", "bogus", ""),
                             Delta(1, "c2", "list_directory", "{}")>>, "tool_calls")>>,
               FALSE),
      \* the call itself fails
      Response(<<>>, TRUE),
      \* the stream breaks after a tool call was accumulated
      Response(<<ToolChunk(<<Delta(0, "c1", "list_directory", "{}")>>, "tool_calls")>>,
               TRUE),
      \* a finish that is neither a stop nor a tool-call request
      Response(<<TextChunk("Hi", "m2", "length")>>, FALSE),
      \* a stop although a tool call was accumulated
      Response(<<ToolChunk(<<Delta(0, "c1", "list_directory", "{}")>>, "stop")>>, FALSE),
      \* deltas of two calls interleaved and out of order, a name sent twice
      Response(<<ToolChunk(<<Delta(1, "c2", "list_directory", "{"),
                             Delta(0, "c1", "bogus", "")>>, ""),
                 ToolChunk(<<Delta(0, "", "list_directory", "{"),
                             Delta(1, "", "", "}"),
                             Delta(0, "", "", "}")>>, "tool_calls")>>, FALSE),
      \* only index 1 is ever addressed
      Response(<<ToolChunk(<<Delta(1, "c2", "list_directory", "")>>, "tool_calls")>>,
               FALSE),
      \* a tool call was accumulated but no fragment carries a finish reason
      Response(<<ToolChunk(<<Delta(0, "c1", "list_directory", "{}")>>, "")>>, FALSE),
      \* a tool-call finish although no tool call was accumulated
      Response(<<TextChunk("Hm", "", "tool_calls")>>, FALSE),
      \* the model name comes in a chunk without choices
      Response(<<TextChunk("", "m3", ""), TextChunk("Hel", "", "stop")>>, FALSE) }

\* Responses offered to the loops run by stream handlers.
StreamResponses ==
    { Response(<<TextChunk("Hello", "m2", "stop")>>, FALSE),
      Response(<<ToolChunk(<<Delta(0, "c1", "read_file_external", ArgsPath),
                             Delta(1, "c2", "read_file_external", "[]")>>,
                           "tool_calls")>>, FALSE),
      Response(<<>>, TRUE) }

\* ------------------------------------------------------------------ log

\* The coroutine yielded an event to its consumer.
Yield(type, id, a, b) == [k |-> "yield", type |-> type, id |-> id, a |-> a, b |-> b]
\* The coroutine called a collaborator (provider, persistence, tool, resolver).
Call(type, id, a, b)  == [k |-> "call", type |-> type, id |-> id, a |-> a, b |-> b]

CapMessage == "Agent loop exceeded maximum iterations"

\* add_message(db, session_id, role, content, tool_calls=..., tool_call_id=...)
AddMessage(role, content, tool_calls, tool_call_id) ==
    Call("add_message", tool_call_id, role, [content |-> content, tool_calls |-> tool_calls])

\* A provider-shape message of the running list openai_messages.
Message(role, content, tool_calls, tool_call_id) ==
    [role |-> role, content |-> content, tool_calls |-> tool_calls,
     tool_call_id |-> tool_call_id]

\* ------------------------------------------------------------------ run_agent_loop

\* The locals of one run_agent_loop generator.
IdleLoop ==
    [request_confirmation |-> "none", model |-> "", iteration |-> 0,
     llm_stream |-> <<>>, fails |-> FALSE,
     model_name |-> "", accumulated_text |-> "", tool_calls |-> <<>>,
     finish_reason |-> "", tc_index |-> 0, result_text |-> <<>>,
     openai_messages |-> <<>>]

\* What one action of a generator does: its locals afterwards, where it parks,
\* and what it yielded / called on the way.
Step(f, at, out) == [f |-> f, pc |-> at, out |-> out]

\* _StreamedToolCall("", "")
EmptyToolCall == [id |-> "", name |-> "", arguments |-> ""]

\* (a variant that keeps only the latest argument fragment)
ApplyDelta_overwrites_arguments(tcs, d) ==
    LET missing  == IF d.index + 1 > Len(tcs) THEN d.index + 1 - Len(tcs) ELSE 0
        extended == tcs \o [i \in 1..missing |-> EmptyToolCall]
        tc       == extended[d.index + 1]
    IN  [extended EXCEPT ![d.index + 1] =
            [id        |-> IF d.id # "" THEN d.id ELSE tc.id,
             name      |-> IF d.name # "" THEN d.name ELSE tc.name,
             arguments |-> IF d.arguments # "" THEN d.arguments ELSE tc.arguments]]

\* agent.py 160-171: one tool-call delta into the accumulators
ApplyDelta(tcs, d) ==
    LET missing  == IF d.index + 1 > Len(tcs) THEN d.index + 1 - Len(tcs) ELSE 0
        extended == tcs \o [i \in 1..missing |-> EmptyToolCall]
        tc       == extended[d.index + 1]
    IN  [extended EXCEPT ![d.index + 1] =
            [id        |-> IF d.id # "" THEN d.id ELSE tc.id,
             name      |-> IF d.name # "" THEN d.name ELSE tc.name,
             arguments |-> tc.arguments \o d.arguments]]

RECURSIVE ApplyDeltas(_, _)
\* agent.py 158-171: `for tc_delta in delta.tool_calls`
ApplyDeltas(tcs, ds) ==
    IF ds = <<>> THEN tcs ELSE ApplyDeltas(ApplyDelta(tcs, Head(ds)), Tail(ds))

\* (a variant whose text-delta carries all the text accumulated so far)
ProcessChunk_yields_whole_text(f, chunk) ==
    LET rest == [f EXCEPT !.llm_stream = Tail(@)] IN
    IF ~chunk.choices
    THEN Step([rest EXCEPT !.model_name = IF chunk.model # "" THEN chunk.model ELSE @],
              "streaming", <<>>)
    ELSE Step([rest EXCEPT
                 !.accumulated_text = @ \o chunk.content,
                 !.tool_calls       = ApplyDeltas(@, chunk.tool_calls),
                 !.finish_reason    = IF chunk.finish_reason # ""
                                      THEN chunk.finish_reason ELSE @,
                 !.model_name       = IF chunk.model # "" THEN chunk.model ELSE @],
              "streaming",
              IF chunk.content # ""
              THEN <<Yield("text-delta", "", f.accumulated_text \o chunk.content, "")>>
              ELSE <<>>)

\* agent.py 139-176: the body of `async for chunk in llm_stream` for one chunk
\* (after the disconnect check)
ProcessChunk(f, chunk) ==
    LET rest == [f EXCEPT !.llm_stream = Tail(@)] IN
    IF ~chunk.choices
    THEN Step([rest EXCEPT !.model_name = IF chunk.model # "" THEN chunk.model ELSE @],
              "streaming", <<>>)
    ELSE Step([rest EXCEPT
                 !.accumulated_text = @ \o chunk.content,
                 !.tool_calls       = ApplyDeltas(@, chunk.tool_calls),
                 !.finish_reason    = IF chunk.finish_reason # ""
                                      THEN chunk.finish_reason ELSE @,
                 !.model_name       = IF chunk.model # "" THEN chunk.model ELSE @],
              "streaming",
              IF chunk.content # ""
              THEN <<Yield("text-delta", "", chunk.content, "")>>
              ELSE <<>>)

\* agent.py 115-132 / 347-358: the next pass of `for _iteration in
\* range(max_iterations)`, or the end of the for loop
NextIteration(f, N, resp) ==
    IF f.iteration < N
    THEN Step([f EXCEPT !.iteration = @ + 1,
                        !.model_name = f.model,
                        !.accumulated_text = "",
                        !.tool_calls = <<>>,
                        !.finish_reason = "",
                        !.llm_stream = resp.chunks,
                        !.fails = resp.fails],
              "streaming",
              <<Call("create", "", f.model, f.openai_messages),
                Call("llm_stream", "", resp.chunks, resp.fails)>>)
    ELSE Step(f, "returned", <<Yield("error", "", CapMessage, N)>>)

\* agent.py 109-113: the generator starts
StartLoop(messages, model, resolver, N, resp) ==
    NextIteration([IdleLoop EXCEPT !.request_confirmation = resolver,
                                   !.model = model,
                                   !.openai_messages = messages],
                  N, resp)

\* (a variant that gives up the text accumulated before the failure)
FailCall_drops_text(f) ==
    Step(f, "returned", <<Yield("error", "", "provider failure", "")>>)

\* agent.py 178-195: the provider call or its stream raised
FailCall(f) ==
    Step(f, "returned",
         (IF f.accumulated_text # ""
          THEN <<AddMessage("assistant", f.accumulated_text, <<>>, "")>>
          ELSE <<>>)
         \o <<Yield("error", "", "provider failure", "")>>)

\* agent.py 235-240: `yield tool-call` for the call the for loop is at
EmitToolCall(f) ==
    LET tc == f.tool_calls[f.tc_index] IN
    Step(f, "tool_called", <<Yield("tool-call", tc.id, tc.name, tc.arguments)>>)

\* `text or None`: an empty string becomes None
OrNone(text) == IF text = "" THEN None ELSE text

\* (a variant that leaves the assistant turn out of the running list)
FinishCall_keeps_list(f) ==
    IF f.finish_reason = "tool_calls" /\ f.tool_calls # <<>>
    THEN LET e == EmitToolCall([f EXCEPT !.tc_index = 1])
         IN  Step(e.f, e.pc,
                  <<AddMessage("assistant", f.accumulated_text, f.tool_calls, "")>>
                  \o e.out)
    ELSE Step(f, "returned",
              (IF f.accumulated_text # ""
               THEN <<AddMessage("assistant", f.accumulated_text, <<>>, "")>>
               ELSE <<>>)
              \o <<Yield("done", "", f.model_name, "")>>)

\* (a variant that dispatches whatever was accumulated, whatever the finish reason)
FinishCall_ignores_finish_reason(f) ==
    IF f.tool_calls # <<>>
    THEN LET g == [f EXCEPT !.openai_messages =
                        Append(@, Message("assistant", OrNone(f.accumulated_text),
                                          f.tool_calls, "")),
                            !.tc_index = 1]
             e == EmitToolCall(g)
         IN  Step(e.f, e.pc,
                  <<AddMessage("assistant", f.accumulated_text, f.tool_calls, "")>>
                  \o e.out)
    ELSE Step(f, "returned",
              (IF f.accumulated_text # ""
               THEN <<AddMessage("assistant", f.accumulated_text, <<>>, "")>>
               ELSE <<>>)
              \o <<Yield("done", "", f.model_name, "")>>)

\* (a variant whose done event carries the requested model)
FinishCall_reports_requested_model(f) ==
    IF f.finish_reason = "tool_calls" /\ f.tool_calls # <<>>
    THEN LET g == [f EXCEPT !.openai_messages =
                        Append(@, Message("assistant", OrNone(f.accumulated_text),
                                          f.tool_calls, "")),
                            !.tc_index = 1]
             e == EmitToolCall(g)
         IN  Step(e.f, e.pc,
                  <<AddMessage("assistant", f.accumulated_text, f.tool_calls, "")>>
                  \o e.out)
    ELSE Step(f, "returned",
              (IF f.accumulated_text # ""
               THEN <<AddMessage("assistant", f.accumulated_text, <<>>, "")>>
               ELSE <<>>)
              \o <<Yield("done", "", f.model, "")>>)

\* agent.py 198-345: the stream is exhausted; act on the finish reason
FinishCall(f) ==
    IF f.finish_reason = "tool_calls" /\ f.tool_calls # <<>>
    THEN LET g == [f EXCEPT !.openai_messages =
                        Append(@, Message("assistant", OrNone(f.accumulated_text),
                                          f.tool_calls, "")),
                            !.tc_index = 1]
             e == EmitToolCall(g)
         IN  Step(e.f, e.pc,
                  <<AddMessage("assistant", f.accumulated_text, f.tool_calls, "")>>
                  \o e.out)
    ELSE Step(f, "returned",
              (IF f.accumulated_text # ""
               THEN <<AddMessage("assistant", f.accumulated_text, <<>>, "")>>
               ELSE <<>>)
              \o <<Yield("done", "", f.model_name, "")>>)

\* agent.py 306-314: `yield tool-result`
EmitToolResult(f, result_text, is_error) ==
    LET tc == f.tool_calls[f.tc_index] IN
    Step([f EXCEPT !.result_text = result_text], "result_yielded",
         <<Yield("tool-result", tc.id, result_text, is_error)>>)

\* (a variant that falls back to empty arguments when they do not parse)
RunTool_empty_args_on_error(f) ==
    LET tc     == f.tool_calls[f.tc_index]
        parsed == ParseArguments(tc.arguments)
        args   == IF parsed = "error" THEN "dict" ELSE parsed
        result_text == Execute(tc.name, args)
        called      == <<Call("execute", tc.id, tc.name, args)>>
    IN  IF result_text = Raised
        THEN Step(f, "raised", called)
        ELSE LET e == EmitToolResult(f, result_text, IsErrorText(result_text))
             IN  Step(e.f, e.pc, called \o e.out)

\* agent.py 291-314: parse the arguments, execute, yield the result
RunTool(f) ==
    LET tc   == f.tool_calls[f.tc_index]
        args == ParseArguments(tc.arguments)
    IN  IF args = "error"
        THEN EmitToolResult(f, ErrParse(tc.name, tc.arguments), TRUE)
        ELSE LET result_text == Execute(tc.name, args)
                 called      == <<Call("execute", tc.id, tc.name, args)>>
             IN  IF result_text = Raised
                 THEN Step(f, "raised", called)
                 ELSE LET e == EmitToolResult(f, result_text, IsErrorText(result_text))
                      IN  Step(e.f, e.pc, called \o e.out)

\* (a variant whose confirmation request names the first call of the turn)
AfterToolCall_confirms_first_call(f) ==
    LET tc == f.tool_calls[f.tc_index] IN
    IF ~ToolKnown(tc.name)
    THEN EmitToolResult(f, ErrUnknownTool(tc.name), TRUE)
    ELSE IF requires_confirmation(tc.name)
    THEN Step(f, "confirm_yielded",
              <<Yield("tool-confirm", f.tool_calls[1].id, tc.name, tc.arguments)>>)
    ELSE RunTool(f)

\* agent.py 242-254: resumed after `yield tool-call`
AfterToolCall(f) ==
    LET tc == f.tool_calls[f.tc_index] IN
    IF ~ToolKnown(tc.name)
    THEN EmitToolResult(f, ErrUnknownTool(tc.name), TRUE)
    ELSE IF requires_confirmation(tc.name)
    THEN Step(f, "confirm_yielded", <<Yield("tool-confirm", tc.id, tc.name, tc.arguments)>>)
    ELSE RunTool(f)

\* (a variant that runs the tool whatever the answer)
Resolved_ignoring_answer(f, approved, source) ==
    LET tc    == f.tool_calls[f.tc_index]
        noted == <<Call("approved", tc.id, approved, source)>>
        e     == RunTool(f)
    IN  Step(e.f, e.pc, noted \o e.out)

\* (a variant in which a timed-out wait ends the turn with an error event)
Resolved_timeout_is_fatal(f, approved, source) ==
    LET tc    == f.tool_calls[f.tc_index]
        noted == <<Call("approved", tc.id, approved, source)>>
        e     == IF approved THEN RunTool(f) ELSE EmitToolResult(f, ErrDeclined, TRUE)
    IN  IF source = "timeout"
        THEN Step(f, "returned",
                  noted \o <<Yield("error", "", "confirmation timed out", "")>>)
        ELSE Step(e.f, e.pc, noted \o e.out)

\* agent.py 266-304: `approved` is known.  "source" tells where the value came
\* from: no resolver, the harness callback, a timeout, or the id of the
\* put_confirm that enqueued it.
Resolved(f, approved, source) ==
    LET tc    == f.tool_calls[f.tc_index]
        noted == <<Call("approved", tc.id, approved, source)>>
        e     == IF approved THEN RunTool(f) ELSE EmitToolResult(f, ErrDeclined, TRUE)
    IN  Step(e.f, e.pc, noted \o e.out)

\* (a variant that keeps the result in the running list only)
AfterResult_forgets_to_persist(f, N, resp) ==
    LET tc == f.tool_calls[f.tc_index]
        g  == [f EXCEPT !.openai_messages =
                    Append(@, Message("tool", f.result_text, <<>>, tc.id))]
        e  == IF f.tc_index < Len(f.tool_calls)
              THEN EmitToolCall([g EXCEPT !.tc_index = @ + 1])
              ELSE NextIteration(g, N, resp)
    IN  Step(e.f, e.pc, e.out)

\* agent.py 281-289 / 316-335: resumed after `yield tool-result`: persist the
\* result, then the next call of the turn or the next provider call
AfterResult(f, N, resp) ==
    LET tc == f.tool_calls[f.tc_index]
        g  == [f EXCEPT !.openai_messages =
                    Append(@, Message("tool", f.result_text, <<>>, tc.id))]
        saved == <<AddMessage("tool", f.result_text, <<>>, tc.id)>>
        e  == IF f.tc_index < Len(f.tool_calls)
              THEN EmitToolCall([g EXCEPT !.tc_index = @ + 1])
              ELSE NextIteration(g, N, resp)
    IN  Step(e.f, e.pc, saved \o e.out)

\* ------------------------------------------------------------------ actions of the loop

\* A done or error event is among the entries.
HasTerminal(out) ==
    \E i \in 1..Len(out) : out[i].k = "yield" /\ out[i].type \in {"done", "error"}

\* Generator h takes the step r.
Advance(h, r) ==
    /\ loop' = [loop EXCEPT ![h] = r.f]
    /\ pc' = [pc EXCEPT ![h] = r.pc]
    /\ log' = [log EXCEPT ![h] = @ \o r.out]
    /\ finished' = IF HasTerminal(r.out) THEN finished \cup {current[h]} ELSE finished

\* agent.py 135-176: a chunk arrives and the consumer is still there
Chunk(h) ==
    /\ pc[h] = "streaming"
    /\ loop[h].llm_stream # <<>>
    /\ ~disconnected[h]
    /\ Advance(h, ProcessChunk(loop[h], Head(loop[h].llm_stream)))
    /\ UNCHANGED <<regVars, ret, nsent, envVars, sid, current, disconnected>>

\* (a variant that looks at is_disconnected() after handling the chunk)
Abandon_after_chunk(h) ==
    /\ pc[h] = "streaming"
    /\ loop[h].llm_stream # <<>>
    /\ disconnected[h]
    /\ Advance(h, [ProcessChunk(loop[h], Head(loop[h].llm_stream)) EXCEPT !.pc = "returned"])
    /\ UNCHANGED <<regVars, ret, nsent, envVars, sid, current, disconnected>>

\* agent.py 136-137: a chunk arrives and is_disconnected() answers true
Abandon(h) ==
    /\ pc[h] = "streaming"
    /\ loop[h].llm_stream # <<>>
    /\ disconnected[h]
    /\ pc' = [pc EXCEPT ![h] = "returned"]
    /\ UNCHANGED <<regVars, ret, nsent, envVars, sid, current, disconnected,
                   loop, log, finished>>

\* agent.py 198-345: the stream ends
StreamEnd(h) ==
    /\ pc[h] = "streaming"
    /\ loop[h].llm_stream = <<>>
    /\ ~loop[h].fails
    /\ Advance(h, FinishCall(loop[h]))
    /\ UNCHANGED <<regVars, ret, nsent, envVars, sid, current, disconnected>>

\* agent.py 178-195: the provider raises
StreamFail(h) ==
    /\ pc[h] = "streaming"
    /\ loop[h].llm_stream = <<>>
    /\ loop[h].fails
    /\ Advance(h, FailCall(loop[h]))
    /\ UNCHANGED <<regVars, ret, nsent, envVars, sid, current, disconnected>>

\* agent.py 242-254
ToolCalled(h) ==
    /\ pc[h] = "tool_called"
    /\ Advance(h, AfterToolCall(loop[h]))
    /\ UNCHANGED <<regVars, ret, nsent, envVars, sid, current, disconnected>>

\* agent.py 255-260: no resolver was handed in
DeclineNoResolver(h) ==
    /\ pc[h] = "confirm_yielded"
    /\ loop[h].request_confirmation = "none"
    /\ Advance(h, Resolved(loop[h], FALSE, "none"))
    /\ UNCHANGED <<regVars, ret, nsent, envVars, sid, current, disconnected>>

\* agent.py 262-264: `await request_confirmation(...)`, resolver of a harness
AskCallback(h) ==
    /\ pc[h] = "confirm_yielded"
    /\ loop[h].request_confirmation = "callback"
    /\ pc' = [pc EXCEPT ![h] = "awaiting"]
    /\ UNCHANGED <<regVars, ret, nsent, envVars, sid, current, disconnected,
                   loop, log, finished>>

\* agent.py 262-304: the harness resolver returns
CallbackReturns(h, approved) ==
    /\ pc[h] = "awaiting"
    /\ loop[h].request_confirmation = "callback"
    /\ Advance(h, Resolved(loop[h], approved, "callback"))
    /\ UNCHANGED <<regVars, ret, nsent, envVars, sid, current, disconnected>>

\* agent.py 281-289 / 316-335
ResultYielded(h) ==
    /\ pc[h] = "result_yielded"
    /\ \E resp \in provider : Advance(h, AfterResult(loop[h], max_iterations, resp))
    /\ UNCHANGED <<regVars, ret, nsent, envVars, sid, current, disconnected>>

\* ------------------------------------------------------------------ the loop on its own

LoopInit ==
    /\ queues = [s \in Sessions |-> None]
    /\ confirm_queues = [s \in Sessions |-> None]
    /\ pending_confirm = [s \in Sessions |-> None]
    /\ mqueue = [h \in Streams |-> <<>>]
    /\ cqueue = [h \in Streams |-> <<>>]
    /\ ret = 0
    /\ nsent = 0
    /\ disconnected = [h \in Streams |-> FALSE]
    /\ provider = LoopResponses
    /\ max_iterations \in 0..MaxIterations
    /\ request = NoRequest
    /\ db = NoRows
    /\ history = [h \in Streams |-> NoHistory]
    /\ events = [h \in Streams |-> <<>>]
    /\ accumulated = [h \in Streams |-> 0]
    /\ response = NoResponse
    /\ pc = [h \in Streams |-> IF h = "A" THEN "harness" ELSE "idle"]
    /\ sid = [h \in Streams |-> "s1"]
    /\ current = [h \in Streams |-> IF h = "A" THEN 1 ELSE 0]
    /\ loop = [h \in Streams |-> IdleLoop]
    /\ log = [h \in Streams |-> <<>>]
    /\ finished = {}

\* A caller iterates run_agent_loop(messages, model, ..., request_confirmation)
HarnessStart(h, resolver) ==
    /\ pc[h] = "harness"
    /\ \E resp \in provider :
          Advance(h, StartLoop(<<Message("user", current[h], <<>>, "")>>, "m1",
                               resolver, max_iterations, resp))
    /\ UNCHANGED <<regVars, ret, nsent, envVars, sid, current, disconnected>>

\* The predicate handed in as is_disconnected starts answering true
HarnessDisconnect(h) ==
    /\ pc[h] = "streaming"
    /\ ~disconnected[h]
    /\ disconnected' = [disconnected EXCEPT ![h] = TRUE]
    /\ UNCHANGED <<regVars, ret, nsent, envVars, pc, sid, current, loop, log, finished>>

LoopNext ==
    \E h \in {"A"} :
        \/ \E resolver \in {"none", "callback"} : HarnessStart(h, resolver)
        \/ HarnessDisconnect(h)
        \/ Chunk(h)
        \/ Abandon(h)
        \/ StreamEnd(h)
        \/ StreamFail(h)
        \/ ToolCalled(h)
        \/ DeclineNoResolver(h)
        \/ AskCallback(h)
        \/ \E approved \in BOOLEAN : CallbackReturns(h, approved)
        \/ ResultYielded(h)

LoopSpec == LoopInit /\ [][LoopNext]_vars

\* The steps of the generator and of its resolver.  The event loop resumes a
\* generator whose awaited value is there; every fragment sequence is finite;
\* every confirmation request is answered.
LoopRun ==
    \E h \in {"A"} :
        \/ \E resolver \in {"none", "callback"} : HarnessStart(h, resolver)
        \/ Chunk(h)
        \/ Abandon(h)
        \/ StreamEnd(h)
        \/ StreamFail(h)
        \/ ToolCalled(h)
        \/ DeclineNoResolver(h)
        \/ AskCallback(h)
        \/ \E approved \in BOOLEAN : CallbackReturns(h, approved)
        \/ ResultYielded(h)

LoopLive == LoopSpec /\ WF_vars(LoopRun)

\* ------------------------------------------------------------------ stream handler

\* The close sentinel a queue can carry instead of a payload (None in the code);
\* payloads are numbered 1, 2, ... in the order they were accepted.
Close == 0

\* max_agent_iterations of the deployment whose streams are modelled
StreamIterations == 1

\* The handler's confirmation resolver, handed to run_agent_loop:
\* record the pending id, then wait on the connection's confirmation queue.
\* A queue that already holds a value answers without suspending.
AskRegistry(h) ==
    LET tc == loop[h].tool_calls[loop[h].tc_index] IN
    /\ pc[h] = "confirm_yielded"
    /\ loop[h].request_confirmation = "registry"
    /\ set_pending_confirm(sid[h], tc.id)
    /\ IF cqueue[h] # <<>>
       THEN /\ Advance(h, Resolved(loop[h], Head(cqueue[h]).approved, Head(cqueue[h]).id))
            /\ cqueue' = [cqueue EXCEPT ![h] = Tail(@)]
       ELSE /\ pc' = [pc EXCEPT ![h] = "awaiting"]
            /\ UNCHANGED <<cqueue, loop, log, finished>>
    /\ UNCHANGED <<queues, confirm_queues, mqueue, ret, nsent, envVars, sid, current,
                   disconnected>>

\* ... a value arrives on the confirmation queue the resolver waits on
ConfirmArrives(h) ==
    /\ pc[h] = "awaiting"
    /\ loop[h].request_confirmation = "registry"
    /\ cqueue[h] # <<>>
    /\ Advance(h, Resolved(loop[h], Head(cqueue[h]).approved, Head(cqueue[h]).id))
    /\ cqueue' = [cqueue EXCEPT ![h] = Tail(@)]
    /\ UNCHANGED <<queues, confirm_queues, pending_confirm, mqueue, ret, nsent, envVars,
                   sid, current, disconnected>>

\* ... or the wait times out, which counts as a denial
ConfirmTimeout(h) ==
    /\ pc[h] = "awaiting"
    /\ loop[h].request_confirmation = "registry"
    /\ cqueue[h] = <<>>
    /\ Advance(h, Resolved(loop[h], FALSE, "timeout"))
    /\ UNCHANGED <<regVars, ret, nsent, envVars, sid, current, disconnected>>

\* chat.py 76-82: GET /{session_id}/stream registers the connection's queues
Connect(h, s) ==
    /\ pc[h] = "idle"
    /\ register(h, s)
    /\ register_confirm(h, s)
    /\ pc' = [pc EXCEPT ![h] = "connected"]
    /\ sid' = [sid EXCEPT ![h] = s]
    /\ disconnected' = [disconnected EXCEPT ![h] = FALSE]
    /\ UNCHANGED <<ret, nsent, envVars, current, loop, log, finished>>

\* chat.py 86-94: replay the history, then `yield ready`
Replay(h) ==
    /\ pc[h] = "connected"
    /\ pc' = [pc EXCEPT ![h] = "waiting"]
    /\ log' = [log EXCEPT ![h] = <<Yield("ready", "", "", "")>>]
    /\ UNCHANGED <<regVars, ret, nsent, envVars, sid, current, loop, finished,
                   disconnected>>

\* chat.py 99-104: queue.get() times out; a keepalive comment, then wait again
Keepalive(h) ==
    /\ pc[h] = "waiting"
    /\ mqueue[h] = <<>>
    /\ UNCHANGED vars

\* chat.py 190-191: the finally block of _generate
Teardown(h) ==
    /\ unregister(sid[h])
    /\ unregister_confirm(sid[h])
    /\ pc' = [pc EXCEPT ![h] = "idle"]
    /\ loop' = [loop EXCEPT ![h] = IdleLoop]
    /\ log' = [log EXCEPT ![h] = <<>>]
    /\ current' = [current EXCEPT ![h] = 0]

\* chat.py 100-108: the sentinel arrives: break, then finally
TakeClose(h) ==
    /\ pc[h] = "waiting"
    /\ mqueue[h] # <<>>
    /\ Head(mqueue[h]) = Close
    /\ Teardown(h)
    /\ mqueue' = [mqueue EXCEPT ![h] = Tail(@)]
    /\ UNCHANGED <<cqueue, ret, nsent, envVars, sid, finished, disconnected>>

\* chat.py 100-125: a payload arrives: persist it, echo it
TakeMessage(h) ==
    /\ pc[h] = "waiting"
    /\ mqueue[h] # <<>>
    /\ Head(mqueue[h]) # Close
    /\ mqueue' = [mqueue EXCEPT ![h] = Tail(@)]
    /\ current' = [current EXCEPT ![h] = Head(mqueue[h])]
    /\ pc' = [pc EXCEPT ![h] = "echoed"]
    /\ log' = [log EXCEPT ![h] =
                  <<AddMessage("user", Head(mqueue[h]), <<>>, ""),
                    Yield("message", "", "user", Head(mqueue[h]))>>]
    /\ UNCHANGED <<queues, confirm_queues, pending_confirm, cqueue, ret, nsent, envVars,
                   sid, loop, finished, disconnected>>

\* chat.py 127-129, then the handler iterates run_agent_loop with its resolver
StartTurn(h) ==
    /\ pc[h] = "echoed"
    /\ \E resp \in provider :
          Advance(h, StartLoop(<<Message("user", current[h], <<>>, "")>>, "m1",
                               "registry", max_iterations, resp))
    /\ UNCHANGED <<regVars, ret, nsent, envVars, sid, current, disconnected>>

\* (a variant that leaves the stream when the turn ended with an error event)
TurnEnds_closes_after_error(h) ==
    /\ pc[h] = "returned"
    /\ IF log[h] # <<>> /\ log[h][Len(log[h])].k = "yield" /\ log[h][Len(log[h])].type = "error"
       THEN /\ Teardown(h)
            /\ UNCHANGED <<mqueue, cqueue, ret, nsent, envVars, sid, finished, disconnected>>
       ELSE /\ pc' = [pc EXCEPT ![h] = "waiting"]
            /\ UNCHANGED <<regVars, ret, nsent, envVars, sid, current, loop, log, finished,
                           disconnected>>

\* chat.py 97: the loop is exhausted; back to `while True`
TurnEnds(h) ==
    /\ pc[h] = "returned"
    /\ pc' = [pc EXCEPT ![h] = "waiting"]
    /\ UNCHANGED <<regVars, ret, nsent, envVars, sid, current, loop, log, finished,
                   disconnected>>

\* chat.py 85 / 190-191: an exception leaves the loop and passes through finally
Unwind(h) ==
    /\ pc[h] = "raised"
    /\ Teardown(h)
    /\ UNCHANGED <<mqueue, cqueue, ret, nsent, envVars, sid, finished, disconnected>>

\* The client of the connection goes away
ClientDisconnect(h) ==
    /\ pc[h] # "idle"
    /\ ~disconnected[h]
    /\ disconnected' = [disconnected EXCEPT ![h] = TRUE]
    /\ UNCHANGED <<regVars, ret, nsent, envVars, pc, sid, current, loop, log, finished>>

\* chat.py 85 / 190-191: the server cancels the generator of a connection whose
\* client is gone, at whatever suspension point it is parked
Cancel(h) ==
    /\ pc[h] \notin {"idle", "raised"}
    /\ disconnected[h]
    /\ Teardown(h)
    /\ UNCHANGED <<mqueue, cqueue, ret, nsent, envVars, sid, finished, disconnected>>

\* Session ids a request can name: those of the sessions table and one that
\* is not in it
RequestSessions == Sessions \cup {"nosuch"}

\* session_exists(db, session_id)
session_exists(s) == s \in Sessions

\* chat.py 200-228: POST /{session_id}/messages
send_message(s) ==
    IF ~session_exists(s)
    THEN /\ ret' = 404
         /\ UNCHANGED <<regVars, nsent, envVars, runVars>>
    ELSE /\ nsent < MaxMsgs
         /\ \E r \in BOOLEAN :
               /\ send(s, nsent + 1, r)
               /\ ret' = IF r THEN 202 ELSE 409
               /\ nsent' = IF r THEN nsent + 1 ELSE nsent
         /\ UNCHANGED <<queues, confirm_queues, pending_confirm, cqueue, envVars,
                        runVars>>

\* The sentinel is put on the registered queue (chat.py 106-108: "used by tests")
SendClose(s) ==
    /\ queues[s] # None
    /\ nsent < MaxMsgs
    /\ \E r \in BOOLEAN : send(s, Close, r)
    /\ nsent' = nsent + 1
    /\ UNCHANGED <<queues, confirm_queues, pending_confirm, cqueue, ret, envVars,
                   runVars>>

\* POST /{session_id}/confirm: routed to put_confirm, false answered by a conflict
confirm_tool(s, tool_call_id, approved) ==
    /\ (confirm_queues[s] # None /\ pending_confirm[s] = tool_call_id)
          => Len(cqueue[confirm_queues[s]]) < MaxQueue
    /\ \E r \in BOOLEAN :
          /\ put_confirm(s, tool_call_id, approved, r)
          /\ ret' = IF r THEN 202 ELSE 409
    /\ UNCHANGED <<queues, confirm_queues, mqueue, nsent, envVars, runVars>>

Init ==
    /\ queues = [s \in Sessions |-> None]
    /\ confirm_queues = [s \in Sessions |-> None]
    /\ pending_confirm = [s \in Sessions |-> None]
    /\ mqueue = [h \in Streams |-> <<>>]
    /\ cqueue = [h \in Streams |-> <<>>]
    /\ ret = 0
    /\ nsent = 0
    /\ disconnected = [h \in Streams |-> FALSE]
    /\ provider = StreamResponses
    /\ max_iterations = StreamIterations
    /\ request = NoRequest
    /\ db = NoRows
    /\ history = [h \in Streams |-> NoHistory]
    /\ events = [h \in Streams |-> <<>>]
    /\ accumulated = [h \in Streams |-> 0]
    /\ response = NoResponse
    /\ pc = [h \in Streams |-> "idle"]
    /\ sid = [h \in Streams |-> "s1"]
    /\ current = [h \in Streams |-> 0]
    /\ loop = [h \in Streams |-> IdleLoop]
    /\ log = [h \in Streams |-> <<>>]
    /\ finished = {}

Next ==
    \/ \E h \in Streams :
        \/ \E s \in Sessions : Connect(h, s)
        \/ Replay(h)
        \/ Keepalive(h)
        \/ TakeClose(h)
        \/ TakeMessage(h)
        \/ StartTurn(h)
        \/ Chunk(h)
        \/ Abandon(h)
        \/ StreamEnd(h)
        \/ StreamFail(h)
        \/ ToolCalled(h)
        \/ AskRegistry(h)
        \/ ConfirmArrives(h)
        \/ ConfirmTimeout(h)
        \/ ResultYielded(h)
        \/ TurnEnds(h)
        \/ Unwind(h)
        \/ ClientDisconnect(h)
        \/ Cancel(h)
    \/ \E s \in RequestSessions : send_message(s)
    \/ \E s \in Sessions :
        \/ SendClose(s)
        \/ \E id \in ToolCallIds, approved \in BOOLEAN : confirm_tool(s, id, approved)

Spec == Init /\ [][Next]_vars

\* ------------------------------------------------------------------ one connection, scheduled fairly

\* The steps of the handler of connection h and of the loop it iterates.  The
\* event loop resumes a coroutine whose awaited value is there; an empty queue
\* is waited on with a timeout.
HandlerRun(h) ==
    \/ Replay(h)
    \/ TakeClose(h)
    \/ TakeMessage(h)
    \/ StartTurn(h)
    \/ Chunk(h)
    \/ Abandon(h)
    \/ StreamEnd(h)
    \/ StreamFail(h)
    \/ ToolCalled(h)
    \/ AskRegistry(h)
    \/ ConfirmArrives(h)
    \/ ConfirmTimeout(h)
    \/ ResultYielded(h)
    \/ TurnEnds(h)
    \/ Unwind(h)
    \/ Cancel(h)

\* A session with a single client: connection A, the requests of that client
SoloNext ==
    \/ \E s \in Sessions : Connect("A", s)
    \/ Keepalive("A")
    \/ HandlerRun("A")
    \/ ClientDisconnect("A")
    \/ \E s \in RequestSessions : send_message(s)
    \/ \E s \in Sessions :
        \/ SendClose(s)
        \/ \E id \in ToolCallIds, approved \in BOOLEAN : confirm_tool(s, id, approved)

SoloSpec == Init /\ [][SoloNext]_vars

SoloLive == SoloSpec /\ WF_vars(HandlerRun("A"))

\* ------------------------------------------------------------------ stream_chat with its messages table

\* text deltas the provider sends in one turn
MaxDeltas == 1

\* A row of the messages table, and the event that carries it
Row(role, content) == [role |-> role, content |-> content]
MessageEvent(row) == Yield("message", "", row.role, row.content)

\* chat.py 84-86: the generator starts and reads the session's messages
ReadHistory(h) ==
    /\ pc[h] = "connected"
    /\ history' = [history EXCEPT ![h] = [msgs |-> db[sid[h]], i |-> 0]]
    /\ events' = [events EXCEPT ![h] = <<>>]
    /\ accumulated' = [accumulated EXCEPT ![h] = 0]
    /\ pc' = [pc EXCEPT ![h] = "replaying"]
    /\ UNCHANGED <<regVars, ret, nsent, provider, max_iterations, request, response, db,
                   sid, current, loop, log, finished, disconnected>>

\* chat.py 87-92: `for msg in history: yield message`
ReplayMessage(h) ==
    /\ pc[h] = "replaying"
    /\ history[h].i < Len(history[h].msgs)
    /\ history' = [history EXCEPT ![h].i = @ + 1]
    /\ events' = [events EXCEPT ![h] = Append(@, MessageEvent(history[h].msgs[history[h].i + 1]))]
    /\ UNCHANGED <<regVars, ret, nsent, provider, max_iterations, request, response, db,
                   accumulated, runVars>>

\* (a variant that sends ready as soon as a payload is waiting)
Ready_when_payload_waits(h) ==
    /\ pc[h] = "replaying"
    /\ history[h].i = Len(history[h].msgs) \/ mqueue[h] # <<>>
    /\ events' = [events EXCEPT ![h] = Append(@, Yield("ready", "", "", 0))]
    /\ pc' = [pc EXCEPT ![h] = "waiting"]
    /\ UNCHANGED <<regVars, ret, nsent, provider, max_iterations, request, response, db,
                   history, accumulated, sid, current, loop, log, finished, disconnected>>

\* chat.py 94: the loop over history is exhausted: `yield ready`
Ready(h) ==
    /\ pc[h] = "replaying"
    /\ history[h].i = Len(history[h].msgs)
    /\ events' = [events EXCEPT ![h] = Append(@, Yield("ready", "", "", 0))]
    /\ pc' = [pc EXCEPT ![h] = "waiting"]
    /\ UNCHANGED <<regVars, ret, nsent, provider, max_iterations, request, response, db,
                   history, accumulated, sid, current, loop, log, finished, disconnected>>

\* chat.py 100-125: a payload arrives: add_message(user), then the echo
Receive(h) ==
    /\ pc[h] = "waiting"
    /\ mqueue[h] # <<>>
    /\ Head(mqueue[h]) # Close
    /\ mqueue' = [mqueue EXCEPT ![h] = Tail(@)]
    /\ current' = [current EXCEPT ![h] = Head(mqueue[h])]
    /\ db' = [db EXCEPT ![sid[h]] = Append(@, Row("user", Head(mqueue[h])))]
    /\ events' = [events EXCEPT ![h] = Append(@, MessageEvent(Row("user", Head(mqueue[h]))))]
    /\ accumulated' = [accumulated EXCEPT ![h] = 0]
    /\ pc' = [pc EXCEPT ![h] = "streaming"]
    /\ UNCHANGED <<queues, confirm_queues, pending_confirm, cqueue, ret, nsent, provider,
                   max_iterations, request, response, history, sid, loop, log, finished,
                   disconnected>>

\* chat.py 143-151: a chunk with content: accumulate it, `yield text-delta`
TextDelta(h) ==
    /\ pc[h] = "streaming"
    /\ accumulated[h] < MaxDeltas
    /\ accumulated' = [accumulated EXCEPT ![h] = @ + 1]
    /\ events' = [events EXCEPT ![h] = Append(@, Yield("text-delta", "", "", accumulated[h] + 1))]
    /\ UNCHANGED <<regVars, ret, nsent, provider, max_iterations, request, response, db,
                   history, runVars>>

\* chat.py 155-189: add_message(assistant, accumulated) if there is any text,
\* then the terminal event of the turn
EndTurn(h, type) ==
    /\ pc[h] = "streaming"
    /\ db' = IF accumulated[h] > 0
             THEN [db EXCEPT ![sid[h]] = Append(@, Row("assistant", accumulated[h]))]
             ELSE db
    /\ events' = [events EXCEPT ![h] = Append(@, Yield(type, "", "", 0))]
    /\ pc' = [pc EXCEPT ![h] = "waiting"]
    /\ UNCHANGED <<regVars, ret, nsent, provider, max_iterations, request, response,
                   history, accumulated, sid, current, loop, log, finished, disconnected>>

\* chat.py 139-162: the provider's stream ends, or the client is found gone
TurnDone(h) == EndTurn(h, "done")

\* chat.py 163-189: the provider call or its stream raised
TurnFailed(h) == EndTurn(h, "error")

ReplayNext ==
    \/ \E h \in Streams :
        \/ \E s \in Sessions : Connect(h, s)
        \/ ReadHistory(h)
        \/ ReplayMessage(h)
        \/ Ready(h)
        \/ Keepalive(h)
        \/ TakeClose(h)
        \/ Receive(h)
        \/ TextDelta(h)
        \/ TurnDone(h)
        \/ TurnFailed(h)
        \/ ClientDisconnect(h)
        \/ Cancel(h)
    \/ \E s \in RequestSessions : send_message(s)
    \/ \E s \in Sessions : SendClose(s)

ReplaySpec == Init /\ [][ReplayNext]_vars

\* ------------------------------------------------------------------ the registry on its own

\* Sessions of the registry's callers; a caller is any code holding `registry`
RegSessions == {"s1", "s2"}

\* get_confirm_queue(session_id), or None
get_confirm_queue(s) == confirm_queues[s]

\* What the last call was and what it returned ("id" of register_confirm and
\* unregister_confirm: the pending id the call popped)
Returned(op, s, id, approved, result) ==
    [op |-> op, s |-> s, id |-> id, approved |-> approved, result |-> result]

\* A queue object is new when made: no other session's entry refers to the name
\* h that stands for it. The name of the object an entry loses is free again, and
\* is the one reused first.
FreshFor(h, s, table) ==
    /\ \A t \in RegSessions \ {s} : table[t] # h
    /\ table[s] # None => h = table[s]

\* An object no entry refers to any more is dropped with its contents
Dropped(q, h) == IF h = None THEN q ELSE [q EXCEPT ![h] = <<>>]

RegRegister(h, s) ==
    /\ FreshFor(h, s, queues)
    /\ register(h, s)
    /\ ret' = Returned("register", s, None, FALSE, TRUE)
    /\ UNCHANGED <<confirm_queues, pending_confirm, cqueue, nsent, envVars, runVars>>

RegUnregister(s) ==
    /\ unregister(s)
    /\ ret' = Returned("unregister", s, None, FALSE, TRUE)
    /\ mqueue' = Dropped(mqueue, queues[s])
    /\ UNCHANGED <<confirm_queues, pending_confirm, cqueue, nsent, envVars, runVars>>

\* (every payload is the same to the registry: payload 1 stands for all)
RegSend(s) ==
    /\ queues[s] # None => Len(mqueue[queues[s]]) < MaxMsgs
    /\ \E r \in BOOLEAN :
          /\ send(s, 1, r)
          /\ ret' = Returned("send", s, None, FALSE, r)
    /\ UNCHANGED <<queues, confirm_queues, pending_confirm, cqueue, nsent, envVars,
                   runVars>>

RegRegisterConfirm(h, s) ==
    /\ FreshFor(h, s, confirm_queues)
    /\ register_confirm(h, s)
    /\ ret' = Returned("register_confirm", s, pending_confirm[s], FALSE, TRUE)
    /\ UNCHANGED <<queues, mqueue, nsent, envVars, runVars>>

RegUnregisterConfirm(s) ==
    /\ unregister_confirm(s)
    /\ ret' = Returned("unregister_confirm", s, pending_confirm[s], FALSE, TRUE)
    /\ cqueue' = Dropped(cqueue, confirm_queues[s])
    /\ UNCHANGED <<queues, mqueue, nsent, envVars, runVars>>

RegSetPending(s, tool_call_id) ==
    /\ set_pending_confirm(s, tool_call_id)
    /\ ret' = Returned("set_pending_confirm", s, tool_call_id, FALSE, TRUE)
    /\ UNCHANGED <<queues, confirm_queues, mqueue, cqueue, nsent, envVars, runVars>>

RegPutConfirm(s, tool_call_id, approved) ==
    /\ (get_confirm_queue(s) # None /\ pending_confirm[s] = tool_call_id)
          => Len(cqueue[get_confirm_queue(s)]) < MaxQueue
    /\ \E r \in BOOLEAN :
          /\ put_confirm(s, tool_call_id, approved, r)
          /\ ret' = Returned("put_confirm", s, tool_call_id, approved, r)
    /\ UNCHANGED <<queues, confirm_queues, mqueue, nsent, envVars, runVars>>

\* The holder of a confirmation queue takes its oldest value
RegGetConfirm(s) ==
    /\ get_confirm_queue(s) # None
    /\ cqueue[get_confirm_queue(s)] # <<>>
    /\ cqueue' = [cqueue EXCEPT ![get_confirm_queue(s)] = Tail(@)]
    /\ ret' = Returned("get", s, Head(cqueue[get_confirm_queue(s)]).id,
                       Head(cqueue[get_confirm_queue(s)]).approved, TRUE)
    /\ UNCHANGED <<queues, confirm_queues, pending_confirm, mqueue, nsent, envVars,
                   runVars>>

RegInit ==
    /\ queues = [s \in RegSessions |-> None]
    /\ confirm_queues = [s \in RegSessions |-> None]
    /\ pending_confirm = [s \in RegSessions |-> None]
    /\ mqueue = [h \in Streams |-> <<>>]
    /\ cqueue = [h \in Streams |-> <<>>]
    /\ ret = Returned("init", None, None, FALSE, TRUE)
    /\ nsent = 0
    /\ disconnected = [h \in Streams |-> FALSE]
    /\ provider = {}
    /\ max_iterations = 0
    /\ request = NoRequest
    /\ db = NoRows
    /\ history = [h \in Streams |-> NoHistory]
    /\ events = [h \in Streams |-> <<>>]
    /\ accumulated = [h \in Streams |-> 0]
    /\ response = NoResponse
    /\ pc = [h \in Streams |-> "idle"]
    /\ sid = [h \in Streams |-> "s1"]
    /\ current = [h \in Streams |-> 0]
    /\ loop = [h \in Streams |-> IdleLoop]
    /\ log = [h \in Streams |-> <<>>]
    /\ finished = {}

RegNext ==
    \E s \in RegSessions :
        \/ \E h \in Streams : RegRegister(h, s)
        \/ RegUnregister(s)
        \/ RegSend(s)
        \/ \E h \in Streams : RegRegisterConfirm(h, s)
        \/ RegUnregisterConfirm(s)
        \/ \E id \in ToolCallIds : RegSetPending(s, id)
        \/ \E id \in ToolCallIds, approved \in BOOLEAN : RegPutConfirm(s, id, approved)
        \/ RegGetConfirm(s)

RegSpec == RegInit /\ [][RegNext]_vars

\* ------------------------------------------------------------------ the tools on their own

\* MAX_ENTRIES, MAX_MATCHES, MAX_RESULTS (500, 200, 500 in the program), scaled
\* to the size of the directory tree below
MAX_ENTRIES == 2
MAX_MATCHES == 2
MAX_RESULTS == 2
\* symbolic links followed while resolving one path
MaxLinks == 3

\* A path is the sequence of its components.  A path of the file system starts
\* at the root directory: <<>> is "/".
\*
\*   /w            the working directory            /wl -> /w
\*   /w/.git/      skipped by the listings          /etc/passwd  (outside)
\*   /w/a          three lines                      /w/in  -> /w/d
\*   /w/b          a file that cannot be read       /w/out -> /etc
\*   /w/big        larger than MAX_FILE_SIZE        /w/pw  -> /etc/passwd
\*   /w/d/f, /w/d/g, /w/e/h (empty file)            /w/e/k -> /etc/passwd
\*   /w/x/         a directory that cannot be listed
Directories ==
    {<<>>, <<"w">>, <<"etc">>, <<"w", ".git">>, <<"w", "d">>, <<"w", "e">>, <<"w", "x">>}

RegularFiles ==
    {<<"w", "a">>, <<"w", "b">>, <<"w", "big">>, <<"w", "d", "f">>, <<"w", "d", "g">>,
     <<"w", "e", "h">>, <<"etc", "passwd">>}

SymLinks == {<<"wl">>, <<"w", "in">>, <<"w", "out">>, <<"w", "pw">>, <<"w", "e", "k">>}

\* os.readlink
LinkTarget(p) ==
    CASE p = <<"wl">>        -> <<"w">>
      [] p = <<"w", "in">>   -> <<"w", "d">>
      [] p = <<"w", "out">>  -> <<"etc">>
      [] p = <<"w", "pw">>   -> <<"etc", "passwd">>
      [] p = <<"w", "e", "k">> -> <<"etc", "passwd">>

\* Reading the file / listing the directory raises OSError
Unreadable == {<<"w", "b">>, <<"w", "x">>}

\* st_size > MAX_FILE_SIZE
TooLarge == {<<"w", "big">>}

\* text.splitlines() of a regular file
Lines(p) ==
    CASE p = <<"w", "a">>         -> <<"l1", "x", "x">>
      [] p = <<"w", "d", "f">>    -> <<"x">>
      [] p = <<"w", "d", "g">>    -> <<"x", "y">>
      [] p = <<"etc", "passwd">>  -> <<"root:x">>
      [] OTHER                    -> <<>>

\* The names in a directory, in the order sorted(iterdir(), key=(not is_dir,
\* name.lower())) gives them: directories (links to directories too) first
SortedEntries(p) ==
    CASE p = <<>>          -> <<"etc", "w", "wl">>
      [] p = <<"w">>       -> <<".git", "d", "e", "in", "out", "x", "a", "b", "big", "pw">>
      [] p = <<"w", "d">>  -> <<"f", "g">>
      [] p = <<"w", "e">>  -> <<"h", "k">>
      [] p = <<"etc">>     -> <<"passwd">>
      [] OTHER             -> <<>>

\* The files sorted(root.rglob("*")) / sorted(root.glob("*")) reach that pass
\* the is_file and _SKIP_DIRS filters, as paths below the directory
FilesBelow(p) ==
    CASE p = <<"w">>       -> <<<<"a">>, <<"b">>, <<"big">>, <<"d", "f">>, <<"d", "g">>,
                                <<"e", "h">>, <<"e", "k">>, <<"pw">>>>
      [] p = <<"w", "d">>  -> <<<<"f">>, <<"g">>>>
      [] p = <<"w", "e">>  -> <<<<"h">>, <<"k">>>>
      [] p = <<"etc">>     -> <<<<"passwd">>>>
      [] OTHER             -> <<>>

FilesIn(p) ==
    CASE p = <<"w">>       -> <<<<"a">>, <<"b">>, <<"big">>, <<"pw">>>>
      [] OTHER             -> FilesBelow(p)

Parent(p) == IF p = <<>> THEN <<>> ELSE SubSeq(p, 1, Len(p) - 1)

IsPrefix(a, b) == Len(a) <= Len(b) /\ SubSeq(b, 1, Len(a)) = a

RECURSIVE Walk(_, _, _)
\* Path.resolve() (strict=False): follow the components of rest from the
\* canonical path cur, replacing links by their targets
Walk(cur, rest, links) ==
    IF rest = <<>> THEN cur
    ELSE LET c == Head(rest) IN
         IF c = "." THEN Walk(cur, Tail(rest), links)
         ELSE IF c = ".." THEN Walk(Parent(cur), Tail(rest), links)
         ELSE IF Append(cur, c) \in SymLinks /\ links > 0
         THEN Walk(<<>>, LinkTarget(Append(cur, c)) \o Tail(rest), links - 1)
         ELSE Walk(Append(cur, c), Tail(rest), links)

Resolve(p) == Walk(<<>>, p, MaxLinks)

RECURSIVE NormPath(_, _)
\* os.path.normpath: "." and ".." removed by name, no link followed
NormPath(cur, rest) ==
    IF rest = <<>> THEN cur
    ELSE IF Head(rest) = "." THEN NormPath(cur, Tail(rest))
    ELSE IF Head(rest) = ".." THEN NormPath(Parent(cur), Tail(rest))
    ELSE NormPath(Append(cur, Head(rest)), Tail(rest))

\* What the operating system finds at a path: it follows links itself
NodeAt(p) == Resolve(p)

Exists(p)  == NodeAt(p) \in Directories \cup RegularFiles
IsDir(p)   == NodeAt(p) \in Directories
IsFile(p)  == NodeAt(p) \in RegularFiles

\* A path argument as the model sends it: absolute or not, and its components.
\* The empty string has no components and is not absolute.
RawPath(abs, parts) == [abs |-> abs, parts |-> parts]

EmptyPath == RawPath(FALSE, <<>>)
DotPath   == RawPath(FALSE, <<".">>)

\* work_dir / raw: an absolute right operand replaces the left one
Join(work_dir, raw) == IF raw.abs THEN raw.parts ELSE work_dir \o raw.parts

\* The None of _resolve_path, among paths
NoPath == <<None>>

\* (a variant that normalises the path by name instead of resolving it)
resolve_path_lexical(raw, work_dir) ==
    LET resolved == NormPath(<<>>, Join(work_dir, raw))
    IN  IF IsPrefix(NormPath(<<>>, work_dir), resolved) THEN resolved ELSE NoPath

\* Tool._resolve_path (base.py 43-53): None if the resolved path escapes work_dir
resolve_path(raw, work_dir) ==
    LET resolved == Resolve(Join(work_dir, raw))
    IN  IF IsPrefix(Resolve(work_dir), resolved) THEN resolved ELSE NoPath

\* What execute returned: the text (first word, then the rest), the lines that
\* follow the header, the files and directories it read or listed, and whether
\* the outcome is a failure of the tool.
Result(text, body, touched, failed) ==
    [text |-> text, body |-> body, touched |-> touched, failed |-> failed]

Failure(text) == Result(text, <<>>, {}, TRUE)

Max(a, b) == IF a > b THEN a ELSE b
Min(a, b) == IF a < b THEN a ELSE b

\* lines[a:b] for 0 <= a
PySlice(lines, a, b) ==
    LET hi == Min(b, Len(lines))
    IN  IF hi <= a THEN <<>> ELSE SubSeq(lines, a + 1, hi)

TruncatedLine == <<"...", "truncated">>

\* (a variant that compares the line numbers as given)
ReadRange_checks_before_clamping(raw, node, arguments) ==
    LET lines == Lines(node)
        total == Len(lines)
        start0 == IF arguments.has_start THEN arguments.start_line ELSE 1
        end0   == IF arguments.has_end THEN arguments.end_line ELSE total
        start == Max(1, start0)
        end   == Min(total, end0)
    IN  IF start0 > end0
        THEN Result(<<"Error:", "start_line > end_line", start, end, total>>, <<>>,
                    {node}, TRUE)
        ELSE LET selected == PySlice(lines, start - 1, end)
             IN  Result(<<"File:", raw, start, end, total>>,
                        [i \in 1..Len(selected) |-> <<start + i - 1, "|", selected[i]>>],
                        {node}, FALSE)

\* read_file.py 72-89 / read_file_external.py 81-97: the line range of a file
\* that has been read
ReadRange(raw, node, arguments) ==
    LET lines == Lines(node)
        total == Len(lines)
        start0 == IF arguments.has_start THEN arguments.start_line ELSE 1
        end0   == IF arguments.has_end THEN arguments.end_line ELSE total
        start == Max(1, start0)
        end   == Min(total, end0)
    IN  IF start > end
        THEN Result(<<"Error:", "start_line > end_line", start, end, total>>, <<>>,
                    {node}, TRUE)
        ELSE LET selected == PySlice(lines, start - 1, end)
             IN  Result(<<"File:", raw, start, end, total>>,
                        [i \in 1..Len(selected) |-> <<start + i - 1, "|", selected[i]>>],
                        {node}, FALSE)

\* read_file.py 52-70 / read_file_external.py 61-79: from exists() to read_text()
ReadResolved(raw, resolved, arguments) ==
    IF ~Exists(resolved) THEN Failure(<<"Error:", "file does not exist", raw>>)
    ELSE IF ~IsFile(resolved) THEN Failure(<<"Error:", "is not a file", raw>>)
    ELSE IF NodeAt(resolved) \in TooLarge THEN Failure(<<"Error:", "file is too large", raw>>)
    ELSE IF NodeAt(resolved) \in Unreadable
    THEN Result(<<"Error", "reading", raw>>, <<>>, {NodeAt(resolved)}, TRUE)
    ELSE ReadRange(raw, NodeAt(resolved), arguments)

\* ReadFileTool.execute (read_file.py 43-89)
ReadFile(arguments, work_dir) ==
    LET raw_path == arguments.path
        resolved == resolve_path(raw_path, work_dir)
    IN  IF raw_path = EmptyPath
        THEN Failure(<<"Error:", "'path' argument is required.">>)
        ELSE IF resolved = NoPath
        THEN Failure(<<"Error:", "path is outside the working directory", raw_path>>)
        ELSE ReadResolved(raw_path, resolved, arguments)

\* The directory Path(raw_path).resolve() starts from when raw_path is relative
Cwd == <<"w">>

\* ReadFileExternalTool.execute (read_file_external.py 53-97): no work_dir check
ReadFileExternal(arguments, work_dir) ==
    LET raw_path == arguments.path
        resolved == Resolve(Join(Cwd, raw_path))
    IN  IF raw_path = EmptyPath
        THEN Failure(<<"Error:", "'path' argument is required.">>)
        ELSE ReadResolved(raw_path, resolved, arguments)

RECURSIVE ListEntries(_, _, _)
\* list_directory.py 63-74: the loop over the sorted entries
ListEntries(dir, entries, lines) ==
    IF entries = <<>> THEN lines
    ELSE LET name  == Head(entries)
             isdir == IsDir(Append(dir, name))
         IN  IF name = ".git" /\ isdir
             THEN ListEntries(dir, Tail(entries), lines)
             ELSE LET more == Append(lines, <<name, IF isdir THEN "/" ELSE "">>)
                  IN  IF Len(more) >= MAX_ENTRIES
                      THEN Append(more, TruncatedLine)
                      ELSE ListEntries(dir, Tail(entries), more)

\* ListDirectoryTool.execute (list_directory.py 46-78).  An absent path is "."
ListDirectory(arguments, work_dir) ==
    LET raw_path == IF arguments.path = EmptyPath THEN DotPath ELSE arguments.path
        resolved == resolve_path(raw_path, work_dir)
    IN  IF resolved = NoPath
        THEN Failure(<<"Error:", "path is outside the working directory", raw_path>>)
        ELSE IF ~Exists(resolved) THEN Failure(<<"Error:", "directory does not exist", raw_path>>)
        ELSE IF ~IsDir(resolved) THEN Failure(<<"Error:", "is not a directory", raw_path>>)
        ELSE IF NodeAt(resolved) \in Unreadable
        THEN Result(<<"Error", "listing", raw_path>>, <<>>, {NodeAt(resolved)}, TRUE)
        ELSE LET lines == ListEntries(NodeAt(resolved), SortedEntries(NodeAt(resolved)), <<>>)
             IN  IF lines = <<>>
                 THEN Result(<<"Directory", "is empty", raw_path>>, <<>>,
                             {NodeAt(resolved)}, FALSE)
                 ELSE Result(<<"Directory:", raw_path>>, lines, {NodeAt(resolved)}, FALSE)

\* regex.search(line) for the one valid pattern the model sends, "x"
LineMatches(line) == line \in {"x", "root:x"}

RECURSIVE GrepLines(_, _, _, _)
\* grep_search.py 90-101: the lines of one file; stops once the cap is reached
GrepLines(rel, lines, line_no, matches) ==
    IF line_no > Len(lines) \/ (matches # <<>> /\ matches[Len(matches)] = TruncatedLine)
    THEN matches
    ELSE IF LineMatches(lines[line_no])
    THEN LET more == Append(matches, <<rel, line_no, lines[line_no]>>)
         IN  IF Len(more) >= MAX_MATCHES
             THEN Append(more, TruncatedLine)
             ELSE GrepLines(rel, lines, line_no + 1, more)
    ELSE GrepLines(rel, lines, line_no + 1, matches)

RECURSIVE GrepFiles(_, _, _, _)
\* grep_search.py 82-104: the loop over the files; an unreadable file is skipped.
\* Gives the matches and the files read.
GrepFiles(root, files, matches, touched) ==
    IF files = <<>> \/ (matches # <<>> /\ matches[Len(matches)] = TruncatedLine)
    THEN [matches |-> matches, touched |-> touched]
    ELSE LET node == NodeAt(root \o Head(files))
         IN  IF node \in Unreadable
             THEN GrepFiles(root, Tail(files), matches, touched \cup {node})
             ELSE GrepFiles(root, Tail(files),
                            GrepLines(Head(files), Lines(node), 1, matches),
                            touched \cup {node})

\* GrepSearchTool.execute (grep_search.py 60-104).  Patterns: "" (absent),
\* "(" (not a regular expression), "x"
GrepSearch(arguments, work_dir) ==
    LET raw_path == IF arguments.path = EmptyPath THEN DotPath ELSE arguments.path
        resolved == resolve_path(raw_path, work_dir)
    IN  IF arguments.pattern = ""
        THEN Failure(<<"Error:", "'pattern' argument is required.">>)
        ELSE IF arguments.pattern = "("
        THEN Failure(<<"Error:", "invalid regex pattern">>)
        ELSE IF resolved = NoPath
        THEN Failure(<<"Error:", "path is outside the working directory", raw_path>>)
        ELSE IF ~Exists(resolved) THEN Failure(<<"Error:", "path does not exist", raw_path>>)
        ELSE LET root  == NodeAt(resolved)
                 files == IF IsFile(resolved) THEN <<<<>>>> ELSE FilesBelow(root)
                 found == GrepFiles(root, files, <<>>, {})
             IN  Result(IF found.matches = <<>> THEN <<"No", "matches found">>
                        ELSE <<"Found", "matches">>,
                        found.matches, found.touched \cup {root}, FALSE)

RECURSIVE GlobResults(_, _)
\* glob_search.py 73-82: the loop over the sorted matches
GlobResults(files, results) ==
    IF files = <<>> THEN results
    ELSE LET more == Append(results, Head(files))
         IN  IF Len(more) >= MAX_RESULTS
             THEN Append(more, TruncatedLine)
             ELSE GlobResults(Tail(files), more)

\* The directory part of a glob pattern: "*" has none, "../etc/*" goes up
GlobDir(pattern) == IF pattern = "../etc/*" THEN <<"..", "etc">> ELSE <<>>

\* glob_search.py 66 / 73-78: sorted(resolved.glob(pattern)) without the skipped
\* directories and what is not a file, each match as a path below resolved
GlobMatches(resolved, pattern) ==
    LET dir   == GlobDir(pattern)
        files == FilesIn(NodeAt(resolved \o dir))
    IN  [i \in 1..Len(files) |-> dir \o files[i]]

\* GlobSearchTool.execute (glob_search.py 50-88).  Patterns: "" (absent), "*",
\* "../etc/*"
GlobSearch(arguments, work_dir) ==
    LET raw_path == IF arguments.path = EmptyPath THEN DotPath ELSE arguments.path
        resolved == resolve_path(raw_path, work_dir)
    IN  IF arguments.pattern = ""
        THEN Failure(<<"Error:", "'pattern' argument is required.">>)
        ELSE IF resolved = NoPath
        THEN Failure(<<"Error:", "path is outside the working directory", raw_path>>)
        ELSE IF ~Exists(resolved) THEN Failure(<<"Error:", "path does not exist", raw_path>>)
        ELSE IF ~IsDir(resolved) THEN Failure(<<"Error:", "is not a directory", raw_path>>)
        ELSE LET results == GlobResults(GlobMatches(resolved, arguments.pattern), <<>>)
             IN  Result(IF results = <<>> THEN <<"No", "files found">> ELSE <<"Found", "files">>,
                        results,
                        {NodeAt(resolved), NodeAt(resolved \o GlobDir(arguments.pattern))},
                        FALSE)

\* Components a path argument is made of
PathNames ==
    {".", "..", "a", "b", "big", "d", "e", "f", "h", "k", "in", "out", "pw", "etc", "passwd",
     "w", "x", "nofile"}

\* Path arguments: every path of up to two components, relative and absolute,
\* and some deeper ones
PathArguments ==
    {RawPath(abs, parts) :
        abs \in BOOLEAN,
        parts \in {<<>>} \cup {<<c>> : c \in PathNames}
                  \cup {<<c, d>> : c, d \in PathNames}
                  \cup {<<"..", "..", "..", "etc", "passwd">>, <<"in", "..", "a">>,
                        <<"out", "..", "w", "a">>, <<"d", "..", "pw">>,
                        <<"in", "..", "..", "etc">>}}

\* start_line / end_line as sent; absent when has_start / has_end is false
LineNumbers == {-1, 0, 1, 2, 3, 4, 5}

WorkDirs == {<<"w">>, <<"wl">>}

Arguments(path, has_start, start_line, has_end, end_line, pattern) ==
    [path |-> path, has_start |-> has_start, start_line |-> start_line,
     has_end |-> has_end, end_line |-> end_line, pattern |-> pattern]

LineArguments(path) ==
    {Arguments(path, TRUE, s, TRUE, e, "") : s, e \in LineNumbers}
    \cup {Arguments(path, FALSE, 0, TRUE, e, "") : e \in LineNumbers}
    \cup {Arguments(path, TRUE, s, FALSE, 0, "") : s \in LineNumbers}
    \cup {Arguments(path, FALSE, 0, FALSE, 0, "")}

\* Paths the line numbers are varied on; the others are read whole
RangedPaths == {RawPath(FALSE, <<"a">>), RawPath(FALSE, <<"e", "h">>),
                RawPath(TRUE, <<"w", "d", "g">>), RawPath(FALSE, <<"pw">>)}

ReadArguments ==
    UNION {LineArguments(path) : path \in RangedPaths}
    \cup {Arguments(path, FALSE, 0, FALSE, 0, "") : path \in PathArguments}

\* A caller awaits tool.execute(arguments, work_dir); one call is followed
Called(tool, arguments, work_dir, result) ==
    /\ request = NoRequest
    /\ request' = [tool |-> tool, arguments |-> arguments, work_dir |-> work_dir]
    /\ response' = result
    /\ UNCHANGED <<regVars, ret, nsent, provider, max_iterations, dbVars, runVars>>

ExecReadFile ==
    \E arguments \in ReadArguments, work_dir \in WorkDirs :
        Called("read_file", arguments, work_dir, ReadFile(arguments, work_dir))

ExecReadFileExternal ==
    \E arguments \in ReadArguments, work_dir \in WorkDirs :
        Called("read_file_external", arguments, work_dir,
               ReadFileExternal(arguments, work_dir))

ExecListDirectory ==
    \E path \in PathArguments, work_dir \in WorkDirs :
        Called("list_directory", Arguments(path, FALSE, 0, FALSE, 0, ""), work_dir,
               ListDirectory(Arguments(path, FALSE, 0, FALSE, 0, ""), work_dir))

ExecGrepSearch ==
    \E path \in PathArguments, pattern \in {"", "(", "x"}, work_dir \in WorkDirs :
        Called("grep_search", Arguments(path, FALSE, 0, FALSE, 0, pattern), work_dir,
               GrepSearch(Arguments(path, FALSE, 0, FALSE, 0, pattern), work_dir))

ExecGlobSearch ==
    \E path \in PathArguments, pattern \in {"", "*", "../etc/*"}, work_dir \in WorkDirs :
        Called("glob_search", Arguments(path, FALSE, 0, FALSE, 0, pattern), work_dir,
               GlobSearch(Arguments(path, FALSE, 0, FALSE, 0, pattern), work_dir))

ToolInit ==
    /\ queues = [s \in Sessions |-> None]
    /\ confirm_queues = [s \in Sessions |-> None]
    /\ pending_confirm = [s \in Sessions |-> None]
    /\ mqueue = [h \in Streams |-> <<>>]
    /\ cqueue = [h \in Streams |-> <<>>]
    /\ ret = 0
    /\ nsent = 0
    /\ disconnected = [h \in Streams |-> FALSE]
    /\ provider = {}
    /\ max_iterations = 0
    /\ request = NoRequest
    /\ db = NoRows
    /\ history = [h \in Streams |-> NoHistory]
    /\ events = [h \in Streams |-> <<>>]
    /\ accumulated = [h \in Streams |-> 0]
    /\ response = NoResponse
    /\ pc = [h \in Streams |-> "idle"]
    /\ sid = [h \in Streams |-> "s1"]
    /\ current = [h \in Streams |-> 0]
    /\ loop = [h \in Streams |-> IdleLoop]
    /\ log = [h \in Streams |-> <<>>]
    /\ finished = {}

ToolNext ==
    \/ ExecReadFile
    \/ ExecReadFileExternal
    \/ ExecListDirectory
    \/ ExecGrepSearch
    \/ ExecGlobSearch

ToolSpec == ToolInit /\ [][ToolNext]_vars

\* ------------------------------------------------------------------ properties of the registry

\* C1: put_confirm(session, id, approved) returns true exactly when a
\* confirmation queue is registered for the session and a pending id is recorded
\* and equals id; a true return appends `approved` to that session's queue and
\* clears the pending id in the same step; a false return leaves the
\* confirmation queues and the pending ids as they were.
C1_PutConfirmContract ==
    [][\A s \in RegSessions, id \in ToolCallIds, approved \in BOOLEAN :
         RegPutConfirm(s, id, approved) =>
            LET ok == /\ confirm_queues[s] # None
                      /\ pending_confirm[s] # None
                      /\ pending_confirm[s] = id
            IN /\ ret'.result = ok
               /\ ok => /\ Len(cqueue'[confirm_queues[s]]) = Len(cqueue[confirm_queues[s]]) + 1
                        /\ SubSeq(cqueue'[confirm_queues[s]], 1, Len(cqueue[confirm_queues[s]]))
                              = cqueue[confirm_queues[s]]
                        /\ cqueue'[confirm_queues[s]][Len(cqueue'[confirm_queues[s]])].approved
                              = approved
                        /\ \A h \in Streams \ {confirm_queues[s]} : cqueue'[h] = cqueue[h]
                        /\ pending_confirm'[s] = None
                        /\ \A t \in RegSessions \ {s} : pending_confirm'[t] = pending_confirm[t]
               /\ ~ok => /\ cqueue' = cqueue
                         /\ pending_confirm' = pending_confirm
    ]_vars

\* C1 witness: a put_confirm has just returned true and its value is on the queue
C1_Witness ==
    /\ ret.op = "put_confirm"
    /\ ret.result
    /\ confirm_queues[ret.s] # None
    /\ cqueue[confirm_queues[ret.s]] # <<>>
    /\ pending_confirm[ret.s] = None

\* C4: once put_confirm(s, id1, _) has returned true, every later
\* put_confirm(s, id, _), a replay of id1 included, returns false until
\* set_pending_confirm is called again for s; and while id1 is pending,
\* put_confirm(s, id2, _) with another id2 returns false and leaves id1 pending
\* and as resolvable as it was.
C4_RejectsReplayAndMismatch ==
    [][\A s \in RegSessions :
         \* a true return leaves nothing pending
         /\ (ret'.op = "put_confirm" /\ ret'.s = s /\ ret'.result /\ ret' # ret)
               => pending_confirm'[s] = None
         \* with nothing pending, every id is refused
         /\ \A id \in ToolCallIds, approved \in BOOLEAN :
               (pending_confirm[s] = None /\ RegPutConfirm(s, id, approved))
                  => ~ret'.result
         \* only set_pending_confirm(s, _) makes an id pending
         /\ (pending_confirm[s] = None /\ pending_confirm'[s] # None)
               => (ret'.op = "set_pending_confirm" /\ ret'.s = s)
         \* a different id is refused and changes nothing for the pending one
         /\ \A id1, id2 \in ToolCallIds, approved \in BOOLEAN :
               (pending_confirm[s] = id1 /\ id2 # id1 /\ RegPutConfirm(s, id2, approved))
                  => /\ ~ret'.result
                     /\ pending_confirm'[s] = id1
                     /\ confirm_queues'[s] = confirm_queues[s]
                     /\ cqueue' = cqueue
    ]_vars

\* C4 witness: a replay of an id whose approval is already on the queue was refused
C4_Witness ==
    /\ ret.op = "put_confirm"
    /\ ~ret.result
    /\ confirm_queues[ret.s] # None
    /\ pending_confirm[ret.s] = None
    /\ \E i \in 1..Len(cqueue[confirm_queues[ret.s]]) :
          cqueue[confirm_queues[ret.s]][i].id = ret.id

\* ------------------------------------------------------------------ reading a log

IsYield(e, type) == e.k = "yield" /\ e.type = type
IsCall(e, type)  == e.k = "call" /\ e.type = type

\* Entries that open a new stretch of a log: a provider call, a tool-call event,
\* a terminal event.
IsBoundary(e) ==
    \/ IsCall(e, "create")
    \/ IsYield(e, "tool-call")
    \/ IsYield(e, "done")
    \/ IsYield(e, "error")

\* The entries that belong to the tool-call event at p: those after p and before
\* the next tool-call event, provider call or terminal event
CallStretch(l, p) ==
    LET later == {q \in (p + 1)..Len(l) : IsBoundary(l[q])}
    IN  {i \in (p + 1)..Len(l) : \A q \in later : i < q}

\* The entries that belong to the provider call at p: those after p and before
\* the next provider call
TurnStretch(l, p) ==
    LET later == {q \in (p + 1)..Len(l) : IsCall(l[q], "create")}
    IN  {i \in (p + 1)..Len(l) : \A q \in later : i < q}

\* The generator of h is over: it returned or raised
Over(h) == pc[h] \in {"returned", "raised"}

\* ------------------------------------------------------------------ properties of the loop

\* C3: for a tool call whose tool requires confirmation, execute is called only
\* after the resolver returned true for that call's id; if the resolver returned
\* false, or none was supplied, execute is not called for that call and the loop
\* emits exactly one tool-confirm event and after it exactly one tool-result
\* event, with is_error true and a content that says the user declined.
C3_ExecuteOnlyAfterApproval ==
    LET l == log["A"] IN
    \A p \in 1..Len(l) :
        (IsYield(l[p], "tool-call") /\ ToolKnown(l[p].a) /\ requires_confirmation(l[p].a))
        => LET mine     == CallStretch(l, p)
               execs    == {i \in mine : IsCall(l[i], "execute")}
               answers  == {i \in mine : IsCall(l[i], "approved")}
               confirms == {i \in mine : IsYield(l[i], "tool-confirm")}
               results  == {i \in mine : IsYield(l[i], "tool-result")}
           IN  /\ \A i \in execs :
                    /\ l[i].id = l[p].id
                    /\ \E j \in answers : j < i /\ l[j].id = l[p].id /\ l[j].a = TRUE
               /\ (\E j \in answers : l[j].a = FALSE)
                    => /\ execs = {}
                       /\ Cardinality(confirms) = 1
                       /\ Cardinality(results) = 1
                       /\ \A c \in confirms, r \in results :
                             /\ c < r
                             /\ l[c].id = l[p].id
                             /\ l[r].id = l[p].id
                             /\ l[r].b = TRUE
                             /\ l[r].a = ErrDeclined

\* C3 witness: in one run a confirmed call was executed after a true answer and
\* another call was declined by the resolver
C3_Witness ==
    LET l == log["A"] IN
    /\ pc["A"] = "result_yielded"
    /\ \E i, j \in 1..Len(l) :
          /\ i < j
          /\ IsCall(l[i], "approved") /\ l[i].a = TRUE
          /\ IsCall(l[i + 1], "execute")
          /\ IsCall(l[j], "approved") /\ l[j].a = FALSE /\ l[j].b = "callback"
          /\ IsYield(l[j + 1], "tool-result")

\* C5: in every tool-call turn, whatever the tool names and argument strings of
\* the accumulated calls, tool-call and tool-result events alternate, the result
\* for call i before the tool-call event of call i+1, and once the turn is over
\* there are as many tool-call events as tool-result events as accumulated calls.
C5_ToolCallsAndResultsPaired ==
    LET l == log["A"] IN
    \A p \in 1..Len(l) :
        IsCall(l[p], "create")
        => LET mine    == TurnStretch(l, p)
               calls   == {i \in mine : IsYield(l[i], "tool-call")}
               results == {i \in mine : IsYield(l[i], "tool-result")}
               saved   == {i \in mine : IsCall(l[i], "add_message") /\ l[i].a = "assistant"
                                           /\ l[i].b.tool_calls # <<>>}
               ended   == Over("A") \/ \E q \in (p + 1)..Len(l) : IsCall(l[q], "create")
           IN  /\ \A r \in results :
                    \E c \in calls : /\ c < r
                                     /\ l[c].id = l[r].id
                                     /\ \A x \in calls \cup results : ~(c < x /\ x < r)
               /\ \A c1, c2 \in calls :
                    c1 < c2 => \E r \in results : c1 < r /\ r < c2
               /\ ended => /\ Cardinality(calls) = Cardinality(results)
                           /\ \A s \in saved : Cardinality(calls) = Len(l[s].b.tool_calls)

\* C6: when every provider call finishes with tool calls requested and at least
\* one accumulated call, a loop with maximum iteration count N makes exactly N
\* provider calls, then emits one error event naming the iteration limit as its
\* last event, and emits no done event.
C6_CapAfterNProviderCalls ==
    LET l       == log["A"]
        creates == {i \in 1..Len(l) : IsCall(l[i], "create")}
        errors  == {i \in 1..Len(l) : IsYield(l[i], "error")}
        dones   == {i \in 1..Len(l) : IsYield(l[i], "done")}
        asked   == \A p \in creates :
                      \E i \in TurnStretch(l, p) :
                          /\ IsCall(l[i], "add_message")
                          /\ l[i].a = "assistant"
                          /\ l[i].b.tool_calls # <<>>
    IN  (Over("A") /\ asked)
        => /\ Cardinality(creates) = max_iterations
           /\ Cardinality(errors) = 1
           /\ IsYield(l[Len(l)], "error")
           /\ l[Len(l)].a = CapMessage
           /\ l[Len(l)].b = max_iterations
           /\ dones = {}

\* ------------------------------------------------------------------ properties of the streams

\* The handler of connection h is inside a turn: it took a payload and its
\* agent loop has not ended
InTurn(h) ==
    pc[h] \in {"echoed", "streaming", "tool_called", "confirm_yielded", "awaiting",
               "result_yielded"}

\* Connection h shows a tool-confirm event whose tool-result has not followed
Outstanding(h) ==
    /\ InTurn(h)
    /\ \E i \in 1..Len(log[h]) :
          /\ IsYield(log[h][i], "tool-confirm")
          /\ \A j \in (i + 1)..Len(log[h]) : ~IsYield(log[h][j], "tool-result")

\* C2: the boolean a loop consumes as the resolution of tool call X was enqueued
\* by a put_confirm whose tool_call_id is X, in every interleaving of the loop,
\* the confirm requests and the timeouts of the wait.
C2_ConsumedAnswerIsForThisCall ==
    \A h \in Streams :
        \A i \in 1..Len(log[h]) :
            (IsCall(log[h][i], "approved") /\ log[h][i].b # "timeout")
            => log[h][i].b = log[h][i].id

C8_OneProviderCallInFlight ==
    \A s \in Sessions :
        Cardinality({h \in Streams : sid[h] = s /\ pc[h] = "streaming"}) <= 1

\* C9: for each session, at most one tool-confirm event is outstanding (emitted,
\* its tool-result not yet emitted) at any time.
C9_OneOutstandingConfirm ==
    \A s \in Sessions :
        Cardinality({h \in Streams : sid[h] = s /\ Outstanding(h)}) <= 1

\* C10: the payloads accepted for a session are processed in the order they were
\* submitted, one at a time: while the turn of a payload is running no turn of
\* an earlier payload is still running, and no later payload's turn has reached
\* its terminal event.
C10_FifoOneAtATime ==
    \A h \in Streams :
        InTurn(h)
        => /\ \A g \in Streams \ {h} :
                 (sid[g] = sid[h] /\ InTurn(g)) => current[g] > current[h]
           /\ \A k \in finished : k < current[h]

\* ------------------------------------------------------------------ properties, continued

\* C11: send(session, payload) returns true and appends exactly that payload to
\* the tail of the session's message queue when a queue is registered; with none
\* registered it returns false and changes nothing in the registry. The HTTP
\* handler answers 202 in the first case, 409 in the second, and 404 without
\* enqueuing anything when the session does not exist.
C11_SendContract ==
    [][\A s \in RequestSessions :
         send_message(s) =>
            IF ~session_exists(s)
            THEN ret' = 404 /\ UNCHANGED regVars
            ELSE IF queues[s] # None
            THEN /\ ret' = 202
                 /\ Len(mqueue'[queues[s]]) = Len(mqueue[queues[s]]) + 1
                 /\ SubSeq(mqueue'[queues[s]], 1, Len(mqueue[queues[s]])) = mqueue[queues[s]]
                 /\ mqueue'[queues[s]][Len(mqueue'[queues[s]])] = nsent + 1
                 /\ \A h \in Streams \ {queues[s]} : mqueue'[h] = mqueue[h]
                 /\ UNCHANGED <<queues, confirm_queues, pending_confirm, cqueue>>
            ELSE ret' = 409 /\ UNCHANGED regVars
    ]_vars

\* C11 witness: a second payload was accepted behind the first, which is still queued
C11_Witness ==
    /\ ret = 202
    /\ queues["s1"] # None
    /\ mqueue[queues["s1"]] = <<1, 2>>

\* What a recorded fragment sequence amounts to, read off the fragments

RECURSIVE TextOf(_)
\* the text of the fragments, in order
TextOf(chunks) ==
    IF chunks = <<>> THEN ""
    ELSE (IF Head(chunks).choices THEN Head(chunks).content ELSE "") \o TextOf(Tail(chunks))

RECURSIVE ModelOf(_, _)
\* the last model name a fragment reported, else the one given
ModelOf(chunks, requested) ==
    IF chunks = <<>> THEN requested
    ELSE ModelOf(Tail(chunks),
                 IF Head(chunks).model # "" THEN Head(chunks).model ELSE requested)

RECURSIVE FinishOf(_)
\* the last finish signal a fragment carried, "" if none
FinishOf(chunks) ==
    IF chunks = <<>> THEN ""
    ELSE LET last == chunks[Len(chunks)]
         IN  IF last.choices /\ last.finish_reason # "" THEN last.finish_reason
             ELSE FinishOf(SubSeq(chunks, 1, Len(chunks) - 1))

\* Index of the last provider call in a log, 0 if there is none
LastCreate(l) ==
    LET creates == {i \in 1..Len(l) : IsCall(l[i], "create")}
    IN  IF creates = {} THEN 0 ELSE CHOOSE i \in creates : \A j \in creates : j <= i

\* The loop of h ended because is_disconnected() answered true before a fragment
Abandoned(h) ==
    pc[h] = "returned" /\ disconnected[h] /\ loop[h].llm_stream # <<>>

\* The loop of h ended after its last provider call was consumed to the end
EndedAfterStream(h) ==
    pc[h] = "returned" /\ loop[h].llm_stream = <<>> /\ LastCreate(log[h]) > 0

C13_ProviderFailure ==
    LET l == log["A"]
        p == LastCreate(l)
    IN  (EndedAfterStream("A") /\ l[p + 1].b = TRUE)
        => LET mine   == TurnStretch(l, p)
               text   == TextOf(l[p + 1].a)
               saved  == {i \in mine : IsCall(l[i], "add_message")}
               errors == {i \in 1..Len(l) : IsYield(l[i], "error")}
           IN  /\ Cardinality(saved) = (IF text # "" THEN 1 ELSE 0)
               /\ \A i \in saved : /\ l[i].a = "assistant"
                                    /\ l[i].b.content = text
                                    /\ l[i].b.tool_calls = <<>>
               /\ errors = {Len(l)}
               /\ l[Len(l)].a = "provider failure"
               /\ \A i \in 1..Len(l) : ~IsYield(l[i], "done")
               /\ \A i \in mine : ~IsYield(l[i], "tool-call")

\* C13 witness: a stream broke after text had been accumulated
C13_Witness ==
    LET l == log["A"]
        p == LastCreate(l)
    IN  /\ EndedAfterStream("A")
        /\ l[p + 1].b = TRUE
        /\ TextOf(l[p + 1].a) # ""
        /\ IsYield(l[Len(l)], "error")

\* C14: when the fragment sequence of a provider call ends with a stop or any
\* other finish that is not a tool-call request, the loop persists the
\* accumulated text as one assistant message if and only if it is non-empty,
\* emits exactly one done event carrying the last model name a fragment of that
\* call reported, else the requested model, and makes no further provider call.
C14_NaturalStop ==
    LET l == log["A"]
        p == LastCreate(l)
    IN  (/\ EndedAfterStream("A")
         /\ l[p + 1].b = FALSE
         /\ FinishOf(l[p + 1].a) \notin {"", "tool_calls"})
        => LET mine  == TurnStretch(l, p)
               text  == TextOf(l[p + 1].a)
               saved == {i \in mine : IsCall(l[i], "add_message")}
               dones == {i \in 1..Len(l) : IsYield(l[i], "done")}
           IN  /\ Cardinality(saved) = (IF text # "" THEN 1 ELSE 0)
               /\ \A i \in saved : /\ l[i].a = "assistant"
                                    /\ l[i].b.content = text
                                    /\ l[i].b.tool_calls = <<>>
               /\ dones = {Len(l)}
               /\ l[Len(l)].a = ModelOf(l[p + 1].a, l[p].a)
               /\ \A i \in 1..Len(l) : ~IsYield(l[i], "error")

\* C14 witness: a stop after a tool-call turn, the model name taken from a fragment
C14_Witness ==
    LET l == log["A"]
        p == LastCreate(l)
    IN  /\ EndedAfterStream("A")
        /\ l[p + 1].b = FALSE
        /\ FinishOf(l[p + 1].a) = "stop"
        /\ IsYield(l[Len(l)], "done")
        /\ l[Len(l)].a # l[p].a
        /\ \E i \in 1..p : IsYield(l[i], "tool-result")

\* C15: every run of the loop that is not abandoned on disconnect emits exactly
\* one terminal event, done or error and never both, and no event after it.
C15_ExactlyOneTerminal ==
    LET l         == log["A"]
        terminals == {i \in 1..Len(l) : IsYield(l[i], "done") \/ IsYield(l[i], "error")}
    IN  /\ Cardinality(terminals) <= 1
        /\ \A i \in terminals : \A j \in (i + 1)..Len(l) : l[j].k # "yield"
        /\ (Over("A") /\ ~Abandoned("A")) => Cardinality(terminals) = 1

\* C16: within one iteration all text-delta events come before the first
\* tool-call event; a tool-confirm event immediately follows the tool-call event
\* of the same call; the tool-result of a call that was put up for confirmation
\* comes only after the resolver has returned for it; no text-delta event lies
\* between a tool-call event and the next provider call.
C16_EventOrder ==
    LET l == log["A"] IN
    /\ \A p \in 1..Len(l) :
          IsCall(l[p], "create")
          => \A i, j \in TurnStretch(l, p) :
                (IsYield(l[i], "text-delta") /\ IsYield(l[j], "tool-call")) => i < j
    /\ \A c \in 1..Len(l) :
          IsYield(l[c], "tool-confirm")
          => /\ c > 1
             /\ IsYield(l[c - 1], "tool-call")
             /\ l[c - 1].id = l[c].id
             /\ \A r \in CallStretch(l, c - 1) :
                   IsYield(l[r], "tool-result")
                   => \E a \in (c + 1)..(r - 1) :
                         IsCall(l[a], "approved") /\ l[a].id = l[c].id

\* C16 witness: one run had text before a tool call in one iteration, and a
\* confirmed second call of a turn with its result
C16_Witness ==
    LET l == log["A"] IN
    /\ \E p \in 1..Len(l) :
          /\ IsCall(l[p], "create")
          /\ \E i, j \in TurnStretch(l, p) :
                IsYield(l[i], "text-delta") /\ IsYield(l[j], "tool-call")
    /\ \E c, r \in 1..Len(l) :
          /\ IsYield(l[c], "tool-confirm") /\ l[c].id = "c2"
          /\ r \in CallStretch(l, c - 1)
          /\ IsYield(l[r], "tool-result")

\* The messages persisted by the first n entries of a log, in order
Persisted(l, n) ==
    LET IsSaved(e) == IsCall(e, "add_message")
    IN  SelectSeq(SubSeq(l, 1, n), IsSaved)

RECURSIVE WellFormed(_)
\* Every assistant message with k tool calls is directly followed by k tool
\* messages with the ids of those calls in order, and no tool message is
\* outside such a block
WellFormed(msgs) ==
    IF msgs = <<>> THEN TRUE
    ELSE LET m == Head(msgs)
             k == Len(m.b.tool_calls)
         IN  /\ m.a = "assistant"
             /\ Len(msgs) >= k + 1
             /\ \A i \in 1..k :
                   /\ msgs[1 + i].a = "tool"
                   /\ msgs[1 + i].id = m.b.tool_calls[i].id
             /\ WellFormed(SubSeq(msgs, k + 2, Len(msgs)))

\* C17: whenever the loop is about to issue a provider call, or has ended with
\* a done event or with the iteration-limit error, the messages it persisted
\* are well-formed for the provider.
C17_PersistedWellFormed ==
    LET l == log["A"] IN
    /\ \A p \in 1..Len(l) :
          IsCall(l[p], "create") => WellFormed(Persisted(l, p - 1))
    /\ (/\ pc["A"] = "returned"
        /\ Len(l) > 0
        /\ \/ IsYield(l[Len(l)], "done")
           \/ IsYield(l[Len(l)], "error") /\ l[Len(l)].a = CapMessage)
       => WellFormed(Persisted(l, Len(l)))

\* C17 witness: a run that persisted a two-call block, went on to another
\* provider call and ended with done
C17_Witness ==
    LET l == log["A"] IN
    /\ pc["A"] = "returned"
    /\ Len(l) > 0
    /\ IsYield(l[Len(l)], "done")
    /\ \E i \in 1..Len(l) :
          /\ IsCall(l[i], "add_message")
          /\ l[i].a = "assistant"
          /\ Len(l[i].b.tool_calls) = 2

WentOn(l, r, id, text) ==
    \/ IsYield(l[r], "tool-call") /\ l[r].id # id
    \/ /\ IsCall(l[r], "create")
       /\ \E k \in 1..Len(l[r].b) : l[r].b[k] = Message("tool", text, <<>>, id)
    \/ IsYield(l[r], "error") /\ l[r].a = CapMessage

\* The tool calls of the assistant message the tool-call event at t belongs to
CallsOfTurn(l, t) ==
    LET turns == {i \in 1..t : IsCall(l[i], "add_message") /\ l[i].a = "assistant"}
        last  == CHOOSE i \in turns : \A j \in turns : j <= i
    IN  l[last].b.tool_calls

\* C19: a tool call whose name is not in the registry gets a tool-result with
\* is_error true naming the unknown tool; nothing is executed and no
\* confirmation is requested for it; the loop continues: the next call of the
\* turn is dispatched, and after the last one another provider call is issued
\* with that error result in its messages unless the iteration limit is reached.
C19_UnknownTool ==
    LET l == log["A"] IN
    \A t \in 1..Len(l) :
       (IsYield(l[t], "tool-call") /\ l[t].a \notin RegisteredTools)
       => LET text  == ErrUnknownTool(l[t].a)
              calls == CallsOfTurn(l, t)
              k     == CHOOSE k \in 1..Len(calls) : calls[k].id = l[t].id
          IN  /\ \A i \in CallStretch(l, t) :
                    /\ ~IsCall(l[i], "execute")
                    /\ ~IsCall(l[i], "approved")
                    /\ ~IsYield(l[i], "tool-confirm")
              /\ (Len(l) = t) => pc["A"] = "tool_called"
              /\ (Len(l) >= t + 1)
                    => /\ IsYield(l[t + 1], "tool-result")
                       /\ l[t + 1].id = l[t].id
                       /\ l[t + 1].a = text
                       /\ l[t + 1].b = TRUE
              /\ (Len(l) = t + 1) => pc["A"] = "result_yielded"
              /\ (Len(l) >= t + 2)
                    => /\ IsCall(l[t + 2], "add_message")
                       /\ l[t + 2].a = "tool"
                       /\ l[t + 2].id = l[t].id
                       /\ l[t + 2].b.content = text
                       /\ Len(l) >= t + 3
                       /\ WentOn(l, t + 3, l[t].id, text)
                       /\ IF k < Len(calls)
                          THEN IsYield(l[t + 3], "tool-call") /\ l[t + 3].id = calls[k + 1].id
                          ELSE IF Cardinality({i \in 1..t : IsCall(l[i], "create")})
                                     < max_iterations
                          THEN IsCall(l[t + 3], "create")
                          ELSE IsYield(l[t + 3], "error")

\* C19 witness: an unknown tool came first in a turn, the known call after it
\* was dispatched, and the next provider call was issued
C19_Witness ==
    LET l == log["A"] IN
    \E t \in 1..Len(l) :
       /\ IsYield(l[t], "tool-call") /\ l[t].a = "bogus"
       /\ Len(l) >= t + 3
       /\ IsYield(l[t + 3], "tool-call") /\ l[t + 3].a = "list_directory"
       /\ \E p \in (t + 4)..Len(l) :
             /\ IsCall(l[p], "create")
             /\ \E m \in 1..Len(l[p].b) :
                   l[p].b[m] = Message("tool", ErrUnknownTool("bogus"), <<>>, l[t].id)

\* C20: for a known tool, after approval when it requires confirmation, whose
\* arguments string does not parse, execute is never called; the loop emits a
\* tool-result with is_error true and the parse-failure text, persists it as
\* the tool message of that call, and continues the turn.
C20_ArgumentParseFailure ==
    LET l == log["A"] IN
    \A t \in 1..Len(l) :
       (/\ IsYield(l[t], "tool-call")
        /\ l[t].a \in RegisteredTools
        /\ JsonLoads(l[t].b) = "error" /\ l[t].b # "")
       => LET text == ErrParse(l[t].a, l[t].b)
              mine == CallStretch(l, t)
              ran  == IF requires_confirmation(l[t].a)
                      THEN \E a \in mine : IsCall(l[a], "approved") /\ l[a].a = TRUE
                      ELSE Len(l) > t
          IN  /\ \A i \in mine : ~IsCall(l[i], "execute")
              /\ ran
                  => \E r \in mine :
                        /\ IsYield(l[r], "tool-result")
                        /\ l[r].id = l[t].id
                        /\ l[r].a = text
                        /\ l[r].b = TRUE
                        /\ (Len(l) = r) => pc["A"] = "result_yielded"
                        /\ (Len(l) > r)
                              => /\ IsCall(l[r + 1], "add_message")
                                 /\ l[r + 1].a = "tool"
                                 /\ l[r + 1].id = l[t].id
                                 /\ l[r + 1].b.content = text
                                 /\ Len(l) >= r + 2
                                 /\ WentOn(l, r + 2, l[t].id, text)

\* C20 witness: an approved call of a confirmed tool had arguments that do not
\* parse, and the next provider call got the parse-failure result
C20_Witness ==
    LET l == log["A"] IN
    \E t, p \in 1..Len(l) :
       /\ IsYield(l[t], "tool-call")
       /\ l[t].a = "read_file_external"
       /\ l[t].b = "{"
       /\ Len(l) >= t + 2
       /\ IsCall(l[t + 2], "approved") /\ l[t + 2].a = TRUE
       /\ p > t
       /\ IsCall(l[p], "create")
       /\ \E m \in 1..Len(l[p].b) :
             l[p].b[m] = Message("tool", ErrParse("read_file_external", "{"), <<>>, l[t].id)

\* ------------------------------------------------------------------ properties, third part

\* C21: a registration for a session that already has a queue makes the new
\* queue the registered one, empty, and moves nothing out of or into the first
\* queue; every payload accepted afterwards goes to the registered queue and to
\* no other.
C21_SecondRegistrationWins ==
    [][/\ \A h \in Streams, s \in Sessions :
             Connect(h, s)
             => /\ queues'[s] = h
                /\ mqueue'[h] = <<>>
                /\ \A g \in Streams \ {h} : mqueue'[g] = mqueue[g]
       /\ \A s \in Sessions :
             (send_message(s) /\ ret' = 202)
             => /\ mqueue'[queues[s]] = Append(mqueue[queues[s]], nsent + 1)
                /\ \A g \in Streams \ {queues[s]} : mqueue'[g] = mqueue[g]
    ]_vars

\* C21 witness: the first connection's queue still holds the payload it got
\* before the second registration; the payload accepted after it is in the
\* second queue only
C21_Witness ==
    /\ queues["s1"] = "B"
    /\ pc["A"] = "connected"
    /\ sid["A"] = "s1"
    /\ mqueue["A"] = <<1>>
    /\ mqueue["B"] = <<2>>
    /\ ret = 202

\* C22: register_confirm installs an empty confirmation queue and leaves no
\* pending id; unregister_confirm removes the queue and the pending id; a
\* put_confirm that follows either of them for that session, whatever id it
\* names, returns false and enqueues nothing; so does every put_confirm while
\* no confirmation queue is registered.
C22_ConfirmRegistration ==
    [][\A s \in RegSessions :
         /\ \A h \in Streams :
               RegRegisterConfirm(h, s)
               => /\ confirm_queues'[s] = h
                  /\ cqueue'[h] = <<>>
                  /\ pending_confirm'[s] = None
         /\ RegUnregisterConfirm(s)
               => /\ confirm_queues'[s] = None
                  /\ pending_confirm'[s] = None
         /\ \A id \in ToolCallIds, approved \in BOOLEAN :
               (/\ RegPutConfirm(s, id, approved)
                /\ \/ ret.op \in {"register_confirm", "unregister_confirm"} /\ ret.s = s
                   \/ confirm_queues[s] = None)
               => /\ ret'.result = FALSE
                  /\ cqueue' = cqueue
                  /\ pending_confirm' = pending_confirm
    ]_vars

\* C22 witness: a registration has just dropped a pending id
C22_Witness ==
    /\ ret.op = "register_confirm"
    /\ ret.id \in ToolCallIds
    /\ confirm_queues[ret.s] # None
    /\ cqueue[confirm_queues[ret.s]] = <<>>
    /\ pending_confirm[ret.s] = None

\* C29: the teardown of a stream removes only the registration that stream
\* created: when a handler exits while the queue registered for its session is
\* the queue of another, later stream, that queue stays registered.
C29_TeardownOwnRegistration ==
    [][\A h \in Streams :
         (TakeClose(h) \/ Unwind(h) \/ Cancel(h))
         => \A s \in Sessions :
               (queues[s] # None /\ queues[s] # h) => queues'[s] = queues[s]
    ]_vars

\* Connection h, the only live one and the one whose queues are registered,
\* shows the client a tool-confirm event for call id that nothing has answered yet
ConfirmShown(h, id) ==
    /\ pc[h] \in {"confirm_yielded", "awaiting"}
    /\ \A g \in Streams \ {h} : pc[g] = "idle"
    /\ confirm_queues[sid[h]] = h
    /\ Len(log[h]) > 0
    /\ IsYield(log[h][Len(log[h])], "tool-confirm")
    /\ log[h][Len(log[h])].id = id
    /\ cqueue[h] = <<>>

\* C30: once a tool-confirm event for call X is observable, a confirm request
\* for X is accepted, in every interleaving of the handler and the request.
C30_PromptApprovalAccepted ==
    [][\A h \in Streams, id \in ToolCallIds, approved \in BOOLEAN :
         (ConfirmShown(h, id) /\ confirm_tool(sid[h], id, approved)) => ret' = 202
    ]_vars

RECURSIVE DeltasOf(_)
\* The tool-call deltas of a fragment sequence, in arrival order
DeltasOf(chunks) ==
    IF chunks = <<>> THEN <<>>
    ELSE (IF Head(chunks).choices THEN Head(chunks).tool_calls ELSE <<>>)
         \o DeltasOf(Tail(chunks))

RECURSIVE ArgumentsFor(_, _)
\* The argument fragments addressed to index i, concatenated in arrival order
ArgumentsFor(ds, i) ==
    IF ds = <<>> THEN ""
    ELSE (IF Head(ds).index = i THEN Head(ds).arguments ELSE "") \o ArgumentsFor(Tail(ds), i)

\* The last non-empty id / name addressed to index i, "" if there is none
LastIdFor(ds, i) ==
    LET at == {k \in 1..Len(ds) : ds[k].index = i /\ ds[k].id # ""}
    IN  IF at = {} THEN "" ELSE ds[CHOOSE k \in at : \A j \in at : j <= k].id

LastNameFor(ds, i) ==
    LET at == {k \in 1..Len(ds) : ds[k].index = i /\ ds[k].name # ""}
    IN  IF at = {} THEN "" ELSE ds[CHOOSE k \in at : \A j \in at : j <= k].name

\* The tool calls tcs are what the assembly rule makes of the deltas ds
Assembled(tcs, ds) ==
    /\ Len(tcs) = (IF ds = <<>> THEN 0
                   ELSE 1 + CHOOSE m \in {ds[k].index : k \in 1..Len(ds)} :
                               \A k \in 1..Len(ds) : ds[k].index <= m)
    /\ \A i \in 1..Len(tcs) :
          /\ tcs[i].arguments = ArgumentsFor(ds, i - 1)
          /\ tcs[i].id = LastIdFor(ds, i - 1)
          /\ tcs[i].name = LastNameFor(ds, i - 1)

\* C28: for any sequence of tool-call deltas within one provider call, the tool
\* call at index i has as arguments the concatenation, in arrival order, of the
\* argument fragments addressed to i, and as id and name the last non-empty id
\* and name addressed to i; deltas addressed to other indices do not affect it.
\* This holds of the accumulators after every fragment and of the tool calls
\* persisted with the assistant message.
C28_ToolCallAssembly ==
    LET l == log["A"]
        p == LastCreate(l)
    IN  p > 0
        => LET recorded == l[p + 1].a
               consumed == SubSeq(recorded, 1, Len(recorded) - Len(loop["A"].llm_stream))
           IN  /\ pc["A"] = "streaming"
                     => Assembled(loop["A"].tool_calls, DeltasOf(consumed))
               /\ \A i \in TurnStretch(l, p) :
                     (IsCall(l[i], "add_message") /\ l[i].a = "assistant"
                        /\ l[i].b.tool_calls # <<>>)
                     => Assembled(l[i].b.tool_calls, DeltasOf(recorded))

\* C28 witness: two calls assembled from interleaved, out-of-order deltas
C28_Witness ==
    LET l == log["A"] IN
    \E i \in 1..Len(l) :
       /\ IsCall(l[i], "add_message")
       /\ l[i].a = "assistant"
       /\ l[i].b.tool_calls =
             <<[id |-> "c1", name |-> "list_directory", arguments |-> "{}"],
               [id |-> "c2", name |-> "list_directory", arguments |-> "{}"]>>
       /\ \E q \in 1..i : IsCall(l[q], "llm_stream") /\ Len(l[q].a) = 2
                            /\ l[q].a[1].tool_calls[1].index = 1

\* ------------------------------------------------------------------ properties of the tools

\* The path argument of the last call as execute reads it: an absent path is "."
\* for the listing and search tools
PathArgument ==
    IF request.arguments.path = EmptyPath /\ request.tool # "read_file"
    THEN DotPath ELSE request.arguments.path

\* The canonical, link-resolved target of the path argument of the last call
\* and the canonical working directory
Target   == Resolve(Join(request.work_dir, PathArgument))
RootDir  == Resolve(request.work_dir)

SandboxedTools == {"read_file", "list_directory", "grep_search", "glob_search"}

\* C23: for each of read_file, list_directory, grep_search and glob_search and
\* every path argument (".." sequences, absolute paths, links inside the
\* working directory that point outside it), if the canonical link-resolved
\* target is not within the canonical working directory, execute returns a
\* text beginning with the error marker and reads or lists nothing; and a call
\* of read_file or list_directory touches nothing but that target.
C23_SandboxEscapeRejected ==
    request.tool \in SandboxedTools
    => /\ ~IsPrefix(RootDir, Target)
             => /\ IsErrorText(response.text)
                /\ response.touched = {}
                /\ response.body = <<>>
       /\ request.tool \in {"read_file", "list_directory"}
             => response.touched \subseteq {Target}

\* C23 witness: read_file was refused a link inside the working directory that
\* points outside it, the working directory itself being given through a link
C23_Witness ==
    /\ request.tool = "read_file"
    /\ request.work_dir = <<"wl">>
    /\ request.arguments.path = RawPath(FALSE, <<"pw">>)
    /\ Target = <<"etc", "passwd">>
    /\ IsErrorText(response.text)
    /\ response.touched = {}

\* C24: every failure outcome of a built-in tool's execute is returned as text
\* beginning with the error marker "Error:", so that the is_error flag the loop
\* derives from that prefix is true for it, I/O failures included.
C24_FailuresCarryErrorMarker ==
    (request.tool # "none" /\ response.failed) => IsErrorText(response.text)

\* C25: read_file and read_file_external, on a file of total lines that was
\* read, return an error whenever start_line > end_line after start_line is
\* raised to 1 and end_line lowered to total, whatever the order of the numbers
\* as given; otherwise exactly the lines from the clamped start to the clamped
\* end, each with its 1-based line number.
C25_LineRange ==
    LET file  == IF request.tool = "read_file" THEN Target
                 ELSE Resolve(Join(Cwd, request.arguments.path))
        total == Len(Lines(file))
        first == IF request.arguments.has_start /\ request.arguments.start_line > 1
                 THEN request.arguments.start_line ELSE 1
        last  == IF request.arguments.has_end /\ request.arguments.end_line < total
                 THEN request.arguments.end_line ELSE total
    IN  (/\ request.tool \in {"read_file", "read_file_external"}
         /\ request.arguments.path # EmptyPath
         /\ request.tool = "read_file" => IsPrefix(RootDir, Target)
         /\ file \in RegularFiles \ (TooLarge \cup Unreadable))
        => IF first > last
           THEN IsErrorText(response.text) /\ response.body = <<>>
           ELSE /\ ~IsErrorText(response.text)
                /\ Len(response.body) = last - first + 1
                /\ \A k \in 1..Len(response.body) :
                      response.body[k] = <<first + k - 1, "|", Lines(file)[first + k - 1]>>

\* C25 witness: the numbers as given were in order, beyond the end of the
\* file, and the call returned the range error
C25_Witness ==
    /\ request.tool = "read_file"
    /\ request.arguments.path = RawPath(FALSE, <<"a">>)
    /\ request.arguments.has_start /\ request.arguments.has_end
    /\ request.arguments.start_line = 4
    /\ request.arguments.end_line = 5
    /\ IsErrorText(response.text)
    /\ response.touched = {<<"w", "a">>}

RECURSIVE MatchesOf(_, _, _)
\* Every matching line of the readable files, in the order of the search
MatchesOf(root, files, line_no) ==
    IF files = <<>> THEN <<>>
    ELSE LET node  == NodeAt(root \o Head(files))
             lines == IF node \in Unreadable THEN <<>> ELSE Lines(node)
         IN  IF line_no > Len(lines) THEN MatchesOf(root, Tail(files), 1)
             ELSE (IF LineMatches(lines[line_no])
                   THEN <<<<Head(files), line_no, lines[line_no]>>>> ELSE <<>>)
                  \o MatchesOf(root, files, line_no + 1)

\* The whole result set of the last call, had there been no cap
FullResults ==
    LET IsListed(name) == ~(name = ".git" /\ IsDir(Append(Target, name)))
        listed == SelectSeq(SortedEntries(Target), IsListed)
    IN  CASE request.tool = "list_directory" ->
               [i \in 1..Len(listed) |->
                   <<listed[i], IF IsDir(Append(Target, listed[i])) THEN "/" ELSE "">>]
          [] request.tool = "grep_search" ->
               MatchesOf(Target, IF Target \in RegularFiles THEN <<<<>>>>
                                 ELSE FilesBelow(Target), 1)
          [] request.tool = "glob_search" -> GlobMatches(Target, request.arguments.pattern)

ResultCap ==
    CASE request.tool = "list_directory" -> MAX_ENTRIES
      [] request.tool = "grep_search"    -> MAX_MATCHES
      [] request.tool = "glob_search"    -> MAX_RESULTS

\* C26: list_directory, grep_search and glob_search append their truncation
\* line if and only if there are more results than the cap: a result set of at
\* most cap items is returned complete and without the line, a larger one as
\* its first cap items followed by the line.
C26_TruncationBeyondCap ==
    (request.tool \in {"list_directory", "grep_search", "glob_search"}
       /\ ~response.failed)
    => IF Len(FullResults) > ResultCap
       THEN response.body = SubSeq(FullResults, 1, ResultCap) \o <<TruncatedLine>>
       ELSE response.body = FullResults

\* ------------------------------------------------------------------ properties of the replay

\* s is an initial segment of t
IsInitialSegment(s, t) == Len(s) <= Len(t) /\ \A k \in 1..Len(s) : s[k] = t[k]

\* C27: on a stream connection the events start with one message event for each
\* message that was persisted for the session when the history was read, in
\* insertion order; the ready event comes right after them and only there; so
\* every event caused by a submitted message comes after ready, also when the
\* message was submitted while the history was being replayed.
C27_ReadyAfterHistory ==
    \A h \in Streams :
        pc[h] \notin {"idle", "connected"} =>
            LET n == Len(history[h].msgs)
                e == events[h]
            IN  /\ IsInitialSegment(history[h].msgs, db[sid[h]])
                /\ \A k \in 1..Len(e) : k <= n => e[k] = MessageEvent(history[h].msgs[k])
                /\ \A k \in 1..Len(e) : (e[k].type = "ready") <=> (k = n + 1)
                /\ IF pc[h] = "replaying" THEN Len(e) <= n ELSE Len(e) > n

\* A payload was submitted to a connection that is in the middle of replaying a
\* history of two messages
C27_Witness ==
    \E h \in Streams :
        /\ pc[h] = "replaying"
        /\ Len(history[h].msgs) = 2
        /\ history[h].i = 1
        /\ events[h] = <<MessageEvent(history[h].msgs[1])>>
        /\ mqueue[h] # <<>>
        /\ Head(mqueue[h]) # Close

\* ------------------------------------------------------------------ properties of the loop, fourth part

\* The distinct indices the tool-call deltas of a fragment sequence refer to
IndicesOf(chunks) ==
    LET ds == DeltasOf(chunks) IN {ds[k].index : k \in 1..Len(ds)}

\* C31: the number of tool calls dispatched in a turn equals the number of
\* distinct indices the tool-call deltas of that provider call refer to, and no
\* tool-call event has both an empty id and an empty name, also when the
\* indices skip a position or arrive out of order.
C31_OneCallPerIndex ==
    LET l == log["A"] IN
    /\ \A i \in 1..Len(l) : IsYield(l[i], "tool-call") => ~(l[i].id = "" /\ l[i].a = "")
    /\ \A p \in 1..Len(l) :
          IsCall(l[p], "create")
          => \A i \in TurnStretch(l, p) :
                (IsCall(l[i], "add_message") /\ l[i].a = "assistant"
                   /\ l[i].b.tool_calls # <<>>)
                => Len(l[i].b.tool_calls) = Cardinality(IndicesOf(l[p + 1].a))

\* agent.py 47-75: _to_message_param, on a persisted assistant or tool message
to_message_param(e) ==
    IF e.a = "tool"
    THEN Message("tool", e.b.content, <<>>, e.id)
    ELSE IF e.b.tool_calls # <<>>
    THEN Message("assistant", OrNone(e.b.content), e.b.tool_calls, "")
    ELSE Message("assistant", e.b.content, <<>>, "")

\* The conversation the loop was started with
InitialMessages(l) ==
    l[CHOOSE p \in 1..Len(l) : IsCall(l[p], "create") /\ \A q \in 1..(p - 1) : ~IsCall(l[q], "create")].b

\* C32: at each provider call after the first, the running provider-shape list
\* is the initial conversation followed by exactly the messages the loop has
\* persisted so far, in the same order, each in provider shape with the same
\* role, content, tool calls and tool_call_id (an assistant turn without text
\* has no content in provider shape).
C32_RunningListIsPersisted ==
    LET l == log["A"] IN
    \A p \in 1..Len(l) :
        (IsCall(l[p], "create") /\ \E q \in 1..(p - 1) : IsCall(l[q], "create"))
        => LET initial == InitialMessages(l)
               saved   == Persisted(l, p - 1)
               running == l[p].b
           IN  /\ Len(running) = Len(initial) + Len(saved)
               /\ SubSeq(running, 1, Len(initial)) = initial
               /\ \A k \in 1..Len(saved) :
                     LET m == running[Len(initial) + k] IN
                     /\ m.role = saved[k].a
                     /\ m = to_message_param(saved[k])

\* C32 witness: a second provider call whose list holds an assistant turn
\* without text, the result of an unknown tool and the result of a known one
C32_Witness ==
    LET l == log["A"] IN
    \E p \in 1..Len(l) :
        /\ IsCall(l[p], "create")
        /\ Len(l[p].b) = 4
        /\ l[p].b[2].role = "assistant" /\ l[p].b[2].content = None
        /\ l[p].b[3] = Message("tool", ErrUnknownTool("bogus"), <<>>, "c1")
        /\ l[p].b[4].role = "tool" /\ l[p].b[4].tool_call_id = "c2"

\* C32, as stated: each message of the running list after the initial
\* conversation has the very content of the persisted message at its position.
C32_SameContentAsPersisted ==
    LET l == log["A"] IN
    \A p \in 1..Len(l) :
        (IsCall(l[p], "create") /\ \E q \in 1..(p - 1) : IsCall(l[q], "create"))
        => LET initial == InitialMessages(l)
               saved   == Persisted(l, p - 1)
               running == l[p].b
           IN  /\ Len(running) = Len(initial) + Len(saved)
               /\ \A k \in 1..Len(saved) :
                     LET m == running[Len(initial) + k] IN
                     /\ m.role = saved[k].a
                     /\ m.content = saved[k].b.content
                     /\ m.tool_calls = saved[k].b.tool_calls
                     /\ m.tool_call_id = saved[k].id

\* The fragments ask for tool calls: the finish signal is "tool_calls" and at
\* least one tool-call delta came
ToolCallsRequested(chunks) ==
    FinishOf(chunks) = "tool_calls" /\ DeltasOf(chunks) # <<>>

\* C33: tool-call events are emitted for a provider call only if its finish
\* signal is "tool_calls" and at least one tool call was accumulated.  A call
\* that accumulated deltas but finished with a stop or without a finish signal,
\* or finished with "tool_calls" without any call, is a natural stop: no
\* tool-call, tool-confirm or tool-result event, nothing executed, nothing
\* persisted with tool calls, and a done event ends the loop.
C33_DispatchNeedsFinishAndCalls ==
    LET l == log["A"] IN
    \A p \in 1..Len(l) :
        IsCall(l[p], "create")
        => LET chunks == l[p + 1].a
               mine   == TurnStretch(l, p)
           IN  ~ToolCallsRequested(chunks)
               => /\ \A i \in mine :
                        /\ ~IsYield(l[i], "tool-call")
                        /\ ~IsYield(l[i], "tool-confirm")
                        /\ ~IsYield(l[i], "tool-result")
                        /\ ~IsCall(l[i], "execute")
                        /\ IsCall(l[i], "add_message") => l[i].b.tool_calls = <<>>
                  /\ (EndedAfterStream("A") /\ l[p + 1].b = FALSE)
                     => /\ IsYield(l[Len(l)], "done")
                        /\ \A i \in 1..Len(l) : ~IsYield(l[i], "error")

\* C33 witness: a call that accumulated a tool call but carried no finish
\* signal has ended with done
C33_Witness ==
    LET l == log["A"]
        p == LastCreate(l)
    IN  /\ EndedAfterStream("A")
        /\ DeltasOf(l[p + 1].a) # <<>>
        /\ FinishOf(l[p + 1].a) = ""
        /\ l[p + 1].b = FALSE
        /\ IsYield(l[Len(l)], "done")

\* Positions of the provider calls in a log
Creates(l) == {p \in 1..Len(l) : IsCall(l[p], "create")}

\* The entry is the error event of the iteration cap
IsCapError(e) == IsYield(e, "error") /\ e.a = CapMessage

\* The run of h is over after its last provider call was consumed to the end
OverAfterStream(h) ==
    Over(h) /\ loop[h].llm_stream = <<>> /\ LastCreate(log[h]) > 0

\* C34: the iteration cap counts provider calls.  There are never more than
\* max_iterations of them.  A run whose max_iterations-th call ends in a natural
\* stop ends with done and without the cap error; a run whose
\* max_iterations-th call asks for tools dispatches each of them, persists each
\* result and then ends with the cap error; with max_iterations 0 the only
\* entry is the cap error.
C34_CapCountsProviderCalls ==
    LET l == log["A"]
        N == max_iterations
        p == LastCreate(l)
    IN  /\ Cardinality(Creates(l)) <= N
        /\ \A i \in 1..Len(l) :
              IsCapError(l[i]) => (i = Len(l) /\ Cardinality(Creates(l)) = N)
        /\ (pc["A"] = "returned" /\ N = 0) => l = <<Yield("error", "", CapMessage, 0)>>
        /\ (OverAfterStream("A") /\ Cardinality(Creates(l)) = N /\ l[p + 1].b = FALSE)
           => IF ToolCallsRequested(l[p + 1].a)
              THEN LET mine  == TurnStretch(l, p)
                       calls == CallsOfTurn(l, Len(l))
                   IN  /\ IsCapError(l[Len(l)])
                       /\ \A k \in 1..Len(calls) :
                             /\ \E i \in mine : IsYield(l[i], "tool-call")
                                                  /\ l[i].id = calls[k].id
                             /\ \E i \in mine : IsCall(l[i], "add_message")
                                                  /\ l[i].a = "tool"
                                                  /\ l[i].id = calls[k].id
                       /\ Cardinality({i \in mine : IsYield(l[i], "tool-call")}) = Len(calls)
                       /\ Cardinality({i \in mine : IsCall(l[i], "add_message")
                                                       /\ l[i].a = "tool"}) = Len(calls)
              ELSE /\ IsYield(l[Len(l)], "done")
                   /\ \A i \in 1..Len(l) : ~IsCapError(l[i])

\* The run of h ended the way a run is meant to end: with done, with error, or
\* abandoned on disconnect
Terminated(h) == pc[h] = "returned"

\* C35: for every max_iterations and every provider whose fragment sequences
\* are finite, a run of the loop whose confirmation requests are all answered
\* eventually terminates with done, with error or by abandonment, and it never
\* makes more than max_iterations provider calls.
C35_Terminates ==
    /\ <>Terminated("A")
    /\ [](Cardinality(Creates(log["A"])) <= max_iterations)

\* The entries of log l that belong to the provider call at p, in order
TurnLog(l, p) ==
    LET mine == TurnStretch(l, p) IN
    [i \in 1..Cardinality(mine) |-> l[p + i]]

RECURSIVE TextFragments(_)
\* The non-empty text contents of a fragment sequence, in order
TextFragments(chunks) ==
    IF chunks = <<>> THEN <<>>
    ELSE (IF Head(chunks).choices /\ Head(chunks).content # ""
          THEN <<Head(chunks).content>> ELSE <<>>)
         \o TextFragments(Tail(chunks))

RECURSIVE Concatenation(_)
\* The strings of a sequence joined in order
Concatenation(texts) ==
    IF texts = <<>> THEN "" ELSE Head(texts) \o Concatenation(Tail(texts))

\* C40: in each provider call the text-delta events are exactly the non-empty
\* text contents of the fragments read so far, one event per fragment and in
\* fragment order; the assistant text persisted for the call (on a natural
\* stop, with a tool-call turn, or on a provider failure) is the concatenation
\* of the contents of those events.
C40_TextDeltasAndPersistedText ==
    LET l == log["A"]
        IsTextDelta(e) == IsYield(e, "text-delta")
    IN  \A p \in 1..Len(l) :
            IsCall(l[p], "create")
            => LET chunks == l[p + 1].a
                   unread == IF p = LastCreate(l) THEN Len(loop["A"].llm_stream) ELSE 0
                   read   == SubSeq(chunks, 1, Len(chunks) - unread)
                   deltas == SelectSeq(TurnLog(l, p), IsTextDelta)
                   mine   == TurnStretch(l, p)
               IN  /\ Len(deltas) = Len(TextFragments(read))
                   /\ \A k \in 1..Len(deltas) : deltas[k].a = TextFragments(read)[k]
                   /\ \A i \in mine :
                         (IsCall(l[i], "add_message") /\ l[i].a = "assistant")
                         => l[i].b.content =
                               Concatenation([k \in 1..Len(deltas) |-> deltas[k].a])

\* C40 witness: a run persisted one fragment of text with a tool-call turn and,
\* for a later provider call, the text "Hello" that came in two fragments
C40_Witness ==
    LET l == log["A"] IN
    /\ pc["A"] = "returned"
    /\ \E i, j, s \in 1..Len(l) :
          /\ i < j /\ j < s
          /\ IsYield(l[i], "text-delta") /\ l[i].a = "Hel"
          /\ IsYield(l[j], "text-delta") /\ l[j].a = "lo"
          /\ IsCall(l[s], "add_message") /\ l[s].a = "assistant"
          /\ l[s].b.content = "Hello"
    /\ \E s \in 1..Len(l) :
          /\ IsCall(l[s], "add_message") /\ l[s].a = "assistant"
          /\ l[s].b.content = "Hel" /\ l[s].b.tool_calls # <<>>

\* ------------------------------------------------------------------ properties of the tools, second part

\* The results of a search, without the truncation line
Reported ==
    LET IsResult(item) == item # TruncatedLine
    IN  SelectSeq(response.body, IsResult)

\* The path, below the searched directory, of the file a result names
ReportedFile(item) == IF request.tool = "grep_search" THEN item[1] ELSE item

\* C38: grep_search and glob_search never raise, and every file they report,
\* or report a line of, has its canonical location within the canonical working
\* directory, also when the tree holds links pointing outside and when the glob
\* pattern has ".." segments.
C38_SearchStaysInside ==
    request.tool \in {"grep_search", "glob_search"}
    => /\ response.text[1] # "raise"
       /\ \A i \in 1..Len(Reported) :
             IsPrefix(RootDir, Resolve(Target \o ReportedFile(Reported[i])))

\* C39: read_file called without start_line and end_line on an existing,
\* readable regular file inside the working directory whose size is within the
\* ceiling returns the content of the file, every line with its number, and not
\* an error, whatever the number of lines, zero included.
C39_WholeFileIsReturned ==
    (/\ request.tool = "read_file"
     /\ request.arguments.path # EmptyPath
     /\ ~request.arguments.has_start /\ ~request.arguments.has_end
     /\ IsPrefix(RootDir, Target)
     /\ Target \in RegularFiles \ (TooLarge \cup Unreadable))
    => /\ ~response.failed
       /\ ~IsErrorText(response.text)
       /\ response.body = [i \in 1..Len(Lines(Target)) |-> <<i, "|", Lines(Target)[i]>>]

\* ------------------------------------------------------------------ properties of one connection

\* Payload p waits in the queue of the open connection h with no close sentinel
\* before it
Queued(h, p) ==
    \E i \in 1..Len(mqueue[h]) :
        /\ pc[h] # "idle"
        /\ mqueue[h][i] = p
        /\ \A j \in 1..(i - 1) : mqueue[h][j] # Close

ErrorEnded(h) == log[h] # <<>> /\ IsYield(log[h][Len(log[h])], "error")

\* The handler of h took payload p from the queue and called the provider for it
TurnStarted(h, p) == current[h] = p /\ Creates(log[h]) # {}

\* C37: after a turn ended with an error event (the provider failed or the
\* iteration cap was reached) the stream of the connection stays open and its
\* queue stays registered; a message submitted then is accepted and taken up as
\* a new turn, and a close sentinel submitted then shuts the stream down with
\* the queue unregistered.
C37_ErrorKeepsStreamOpen ==
    /\ [](ErrorEnded("A") => /\ pc["A"] \in {"returned", "waiting"}
                             /\ queues[sid["A"]] = "A")
    /\ [][(ErrorEnded("A") /\ send_message(sid["A"]))
          => (ret' = 202 /\ mqueue'["A"] = Append(mqueue["A"], nsent + 1))]_vars
    /\ \A p \in 1..MaxMsgs :
          (ErrorEnded("A") /\ mqueue["A"] # <<>> /\ Head(mqueue["A"]) = p)
          ~> (TurnStarted("A", p) \/ disconnected["A"])
    /\ (ErrorEnded("A") /\ mqueue["A"] # <<>> /\ Head(mqueue["A"]) = Close)
       ~> (pc["A"] = "idle" /\ queues[sid["A"]] = None)

\* the turn of message 1 ended with the error event of the iteration cap, the
\* stream waits again and message 2 was accepted with 202
C37_Witness ==
    /\ ErrorEnded("A")
    /\ IsCapError(log["A"][Len(log["A"])])
    /\ pc["A"] = "waiting"
    /\ queues[sid["A"]] = "A"
    /\ 1 \in finished
    /\ ret = 202
    /\ mqueue["A"] = <<2>>

====
